---- MODULE Spec2Model ----
(***************************************************************************)
(* A model of the topology-metrics correlation engine of the pipeline      *)
(* visualiser: the polling hooks (useBenthosMetrics, useRuntimeMetrics)    *)
(* under target selection, and the configuration resolver (configToGraph). *)
(*                                                                         *)
(* JavaScript objects with optional fields are functions whose domain is   *)
(* the set of fields that are defined: a field that is undefined is not in *)
(* the domain.  Map<string, T> is a function from its keys.                *)
(***************************************************************************)
EXTENDS Integers, Sequences, FiniteSets, TLC

\* ---------------------------------------------------------------- bounds
MaxPolls == 3          \* completed metrics polls in one run of Spec
MaxRtPolls == 2        \* completed runtime polls in one run of Spec
MaxTicks == 2          \* clock ticks in one run of Spec
MaxHistPolls == 123    \* poll cycles in one run of SpecHist
MaxHistSwitchAt == 2   \* the latest cycle before which SpecHist switches target
MaxProcessors == 2     \* processors of a configuration of SpecGraph
MaxSamples == 3        \* samples of one poll of SpecGroup
MaxLines == 2          \* lines of a text of SpecParse
MaxPanelPolls == 3     \* completed runtime polls in one run of SpecPanel
MaxRefetchPolls == 1   \* completed polls of each hook in one run of SpecRefetch
MaxResolutions == 2    \* results of the config query in one run of SpecRefetch

\* ------------------------------------------------------ program constants
MAX_HISTORY_POINTS == 120
MAX_HISTORY == 100
refetchInterval == 5000

\* ------------------------------------------------------------- JS values
Targets == {"X", "Y"}
NoTarget == "null"
EmptyObj == [x \in {} |-> 0]
EmptyMap == [x \in {} |-> EmptyObj]
\* prevSnapshot.current = null
NoSnapshot == [time |-> 0, byPath |-> EmptyMap, byLabel |-> EmptyMap, src |-> NoTarget]

SetField(m, f, v) == [x \in DOMAIN m \cup {f} |-> IF x = f THEN v ELSE m[x]]

Abs(n) == IF n < 0 THEN -n ELSE n

RECURSIVE GCD(_, _)
GCD(a, b) == IF b = 0 THEN a ELSE GCD(b, a % b)

\* A number that need not be an integer, as the fraction num/den in lowest
\* terms with den > 0.
Rat(n, d) ==
  LET g == GCD(Abs(n), Abs(d))
      s == IF d < 0 THEN -1 ELSE 1
  IN [num |-> s * (n \div g), den |-> s * (d \div g)]

\* a / b for an integer a and a fraction b # 0
DivByRat(a, b) == Rat(a * b.den, b.num)

\* ---------------------------------------------------------------- samples
\* MetricSample: labels holds the tags the line carries.
Sample(name, labels, value) == [name |-> name, labels |-> labels, value |-> value]
NoTags == [x \in {} |-> ""]
Tag(k, v) == [x \in {k} |-> v]
Tags2(k1, v1, k2, v2) == [x \in {k1, k2} |-> IF x = k1 THEN v1 ELSE v2]

\* AddTo storing the sample's value instead of adding it.
AddTo_Overwrite(metrics, f, v) == SetField(metrics, f, v)

AddTo(metrics, f, v) ==
  SetField(metrics, f, (IF f \in DOMAIN metrics THEN metrics[f] ELSE 0) + v)

\* accumulateMetric taking the latency of every quantile.
accumulateMetric_AnyQuantile(metrics, sample) ==
  LET n == sample.name
      v == sample.value
  IN CASE n \in {"input_received", "processor_received"} -> AddTo(metrics, "received", v)
       [] n \in {"processor_sent", "output_sent", "cache_sent"} -> AddTo(metrics, "sent", v)
       [] n \in {"processor_error", "output_error", "cache_error"} -> AddTo(metrics, "error", v)
       [] n \in {"input_latency_ns", "processor_latency_ns", "output_latency_ns",
                 "cache_latency_ns"} -> SetField(metrics, "latencyNs", v)
       [] n \in {"input_connection_up", "output_connection_up"} ->
            SetField(metrics, "connectionUp", v)
       [] n \in {"input_connection_failed", "output_connection_failed"} ->
            AddTo(metrics, "connectionFailed", v)
       [] n \in {"input_connection_lost", "output_connection_lost"} ->
            AddTo(metrics, "connectionLost", v)
       [] n \in {"processor_batch_sent", "output_batch_sent"} -> AddTo(metrics, "batchSent", v)
       [] n = "processor_batch_received" -> AddTo(metrics, "batchReceived", v)
       [] n = "cache_not_found" -> AddTo(metrics, "notFound", v)
       [] OTHER -> metrics

accumulateMetric(metrics, sample) ==
  LET n == sample.name
      v == sample.value
  IN CASE n \in {"input_received", "processor_received"} -> AddTo(metrics, "received", v)
       [] n \in {"processor_sent", "output_sent", "cache_sent"} -> AddTo(metrics, "sent", v)
       [] n \in {"processor_error", "output_error", "cache_error"} -> AddTo(metrics, "error", v)
       [] n \in {"input_latency_ns", "processor_latency_ns", "output_latency_ns",
                 "cache_latency_ns"} ->
            IF "quantile" \notin DOMAIN sample.labels
               \/ sample.labels["quantile"] = "0.99"
               \/ sample.labels["quantile"] = ""
            THEN SetField(metrics, "latencyNs", v)
            ELSE metrics
       [] n \in {"input_connection_up", "output_connection_up"} ->
            SetField(metrics, "connectionUp", v)
       [] n \in {"input_connection_failed", "output_connection_failed"} ->
            AddTo(metrics, "connectionFailed", v)
       [] n \in {"input_connection_lost", "output_connection_lost"} ->
            AddTo(metrics, "connectionLost", v)
       [] n \in {"processor_batch_sent", "output_batch_sent"} -> AddTo(metrics, "batchSent", v)
       [] n = "processor_batch_received" -> AddTo(metrics, "batchReceived", v)
       [] n = "cache_not_found" -> AddTo(metrics, "notFound", v)
       [] OTHER -> metrics

\* One target of the loop body of groupMetricsByPath: the bundle of `key` in
\* `map`, created empty when missing, accumulates the sample.  A tag that is
\* missing or the empty string selects no target.
AccumulateInto(map, labels, tag, sample) ==
  IF tag \in DOMAIN labels /\ labels[tag] # ""
  THEN LET key == labels[tag]
           old == IF key \in DOMAIN map THEN map[key] ELSE EmptyObj
       IN SetField(map, key, accumulateMetric(old, sample))
  ELSE map

\* GroupFrom with the label looked at only when the sample has no path.
RECURSIVE GroupFrom_PathElseLabel(_, _, _)
GroupFrom_PathElseLabel(samples, i, acc) ==
  IF i > Len(samples) THEN acc
  ELSE GroupFrom_PathElseLabel(samples, i + 1,
         IF "path" \in DOMAIN samples[i].labels /\ samples[i].labels["path"] # ""
         THEN [acc EXCEPT !.byPath = AccumulateInto(acc.byPath, samples[i].labels, "path",
                                                    samples[i])]
         ELSE [acc EXCEPT !.byLabel = AccumulateInto(acc.byLabel, samples[i].labels, "label",
                                                      samples[i])])

RECURSIVE GroupFrom(_, _, _)
GroupFrom(samples, i, acc) ==
  IF i > Len(samples) THEN acc
  ELSE GroupFrom(samples, i + 1,
         [byPath |-> AccumulateInto(acc.byPath, samples[i].labels, "path", samples[i]),
          byLabel |-> AccumulateInto(acc.byLabel, samples[i].labels, "label", samples[i])])

groupMetricsByPath(samples) ==
  GroupFrom(samples, 1, [byPath |-> EmptyMap, byLabel |-> EmptyMap])

\* ------------------------------------------------------------------ rates
RateName(f) ==
  CASE f = "received" -> "receivedRate"
    [] f = "sent" -> "sentRate"
    [] f = "error" -> "errorRate"

\* AttachRate dividing the current counter, not its increase.
AttachRate_NoDelta(cur, old, f, dtSec) ==
  IF f \in DOMAIN cur /\ f \in DOMAIN old
  THEN LET delta == cur[f] - old[f]
       IN IF delta >= 0 THEN SetField(cur, RateName(f), DivByRat(cur[f], dtSec)) ELSE cur
  ELSE cur

\* AttachRate without the test for a counter reset.
AttachRate_NoResetTest(cur, old, f, dtSec) ==
  IF f \in DOMAIN cur /\ f \in DOMAIN old
  THEN SetField(cur, RateName(f), DivByRat(cur[f] - old[f], dtSec))
  ELSE cur

\* One of the three blocks of the loop body of attachRates.
AttachRate(cur, old, f, dtSec) ==
  IF f \in DOMAIN cur /\ f \in DOMAIN old
  THEN LET delta == cur[f] - old[f]
       IN IF delta >= 0 THEN SetField(cur, RateName(f), DivByRat(delta, dtSec)) ELSE cur
  ELSE cur

\* attachRates taking the bundle of all-zero counters for a key the baseline
\* map does not have.
attachRates_MissingIsZero(current, prev, dtSec) ==
  [key \in DOMAIN current |->
     IF dtSec.num <= 0
     THEN current[key]
     ELSE LET old == IF key \in DOMAIN prev THEN prev[key]
                     ELSE [f \in {"received", "sent", "error"} |-> 0]
          IN AttachRate(AttachRate(AttachRate(current[key], old, "received", dtSec),
                                   old, "sent", dtSec),
                        old, "error", dtSec)]

attachRates(current, prev, dtSec) ==
  [key \in DOMAIN current |->
     IF key \notin DOMAIN prev \/ dtSec.num <= 0
     THEN current[key]
     ELSE AttachRate(AttachRate(AttachRate(current[key], prev[key], "received", dtSec),
                                prev[key], "sent", dtSec),
                     prev[key], "error", dtSec)]

cloneMetricsMap(m) == [k \in DOMAIN m |-> [f \in DOMAIN m[k] |-> m[k][f]]]

\* SharedBundles of a clone that stores the bundles themselves: out.set(k, v)
SharedBundles_NoSpread(m) == DOMAIN m

\* The keys whose bundle in the map cloneMetricsMap returns is the very object
\* of the map it was given: none, { ...v } is a new object for every key.
SharedBundles(m) == {}

\* ---------------------------------------------------------------- history
PointFields == {"received", "sent", "error", "latencyNs",
                "receivedRate", "sentRate", "errorRate"}

\* TimePoint with 0 for the fields the bundle does not have.
TimePoint_ZeroDefault(m, timestamp, src) ==
  [f \in PointFields \cup {"timestamp", "src"} |->
     IF f = "timestamp" THEN timestamp ELSE IF f = "src" THEN src
     ELSE IF f \in DOMAIN m THEN m[f] ELSE 0]

\* The MetricsTimePoint pushed by appendHistory.  src is not a field of the
\* program's point: it records the target whose metrics the point was built
\* from.
TimePoint(m, timestamp, src) ==
  [f \in ((DOMAIN m) \cap PointFields) \cup {"timestamp", "src"} |->
     IF f = "timestamp" THEN timestamp ELSE IF f = "src" THEN src ELSE m[f]]

\* TrimFront keeping the oldest entries: slice(0, max)
TrimFront_KeepOldest(arr, max) ==
  IF Len(arr) > max THEN SubSeq(arr, 1, max) ELSE arr

\* arr.splice(0, arr.length - max) when arr.length > max
TrimFront(arr, max) ==
  IF Len(arr) > max THEN SubSeq(arr, Len(arr) - max + 1, Len(arr)) ELSE arr

\* appendHistory with unshift for push: the new point goes to the front.
appendHistory_Unshift(histMap, metricsMap, timestamp, src) ==
  [key \in DOMAIN histMap \cup DOMAIN metricsMap |->
     IF key \in DOMAIN metricsMap
     THEN TrimFront(<< TimePoint(metricsMap[key], timestamp, src) >>
                      \o (IF key \in DOMAIN histMap THEN histMap[key] ELSE <<>>),
                    MAX_HISTORY_POINTS)
     ELSE histMap[key]]

\* appendHistory pushing, for a key the aggregate lacks, the key's last point
\* again under the new timestamp.
appendHistory_CarryForward(histMap, metricsMap, timestamp, src) ==
  [key \in DOMAIN histMap \cup DOMAIN metricsMap |->
     TrimFront(Append(IF key \in DOMAIN histMap THEN histMap[key] ELSE <<>>,
                      IF key \in DOMAIN metricsMap
                      THEN TimePoint(metricsMap[key], timestamp, src)
                      ELSE [histMap[key][Len(histMap[key])] EXCEPT !["timestamp"] = timestamp]),
               MAX_HISTORY_POINTS)]

appendHistory(histMap, metricsMap, timestamp, src) ==
  [key \in DOMAIN histMap \cup DOMAIN metricsMap |->
     IF key \in DOMAIN metricsMap
     THEN TrimFront(Append(IF key \in DOMAIN histMap THEN histMap[key] ELSE <<>>,
                           TimePoint(metricsMap[key], timestamp, src)),
                    MAX_HISTORY_POINTS)
     ELSE histMap[key]]

cloneHistoryMap(m) == [k \in DOMAIN m |-> [i \in 1..Len(m[k]) |-> m[k][i]]]

EmptyHistory == [byPath |-> [x \in {} |-> <<>>], byLabel |-> [x \in {} |-> <<>>]]

\* ------------------------------------------------------- runtime snapshot
\* The switch of buildSnapshot: the field a sample name sets.
RuntimeField(s) ==
  CASE s.name = "go_goroutines" -> "goroutines"
    [] s.name = "go_memstats_heap_alloc_bytes" -> "heapBytes"
    [] s.name = "go_memstats_heap_inuse_bytes" -> "heapInuseBytes"
    [] s.name = "go_memstats_stack_inuse_bytes" -> "stackBytes"
    [] s.name = "go_memstats_sys_bytes" -> "sysBytes"
    [] s.name = "process_cpu_seconds_total" -> "cpuSecondsTotal"
    [] s.name = "go_gc_duration_seconds" ->
         IF "quantile" \in DOMAIN s.labels /\ s.labels["quantile"] = "0.5" THEN "gcDurationP50"
         ELSE IF "quantile" \in DOMAIN s.labels /\ s.labels["quantile"] = "1" THEN "gcDurationP99"
         ELSE "none"
    [] s.name = "go_gc_duration_seconds_count" -> "gcCount"
    [] s.name = "process_resident_memory_bytes" -> "residentMemoryBytes"
    [] s.name = "process_open_fds" -> "openFds"
    [] OTHER -> "none"

RECURSIVE SnapFrom(_, _, _)
SnapFrom(samples, i, snap) ==
  IF i > Len(samples) THEN snap
  ELSE SnapFrom(samples, i + 1,
         IF samples[i].name = "go_info"
         THEN [snap EXCEPT !.goVersion =
                 IF "version" \in DOMAIN samples[i].labels
                 THEN samples[i].labels["version"] ELSE ""]
         ELSE IF RuntimeField(samples[i]) = "none" THEN snap
         ELSE [snap EXCEPT ![RuntimeField(samples[i])] = samples[i].value])

\* The RuntimeSnapshot built by buildSnapshot.  src is not a field of the
\* program's snapshot: it records the target whose metrics it was built from.
RuntimeSnapshot(samples, timestamp, src) ==
  SnapFrom(samples, 1,
    [timestamp |-> timestamp, goroutines |-> 0, heapBytes |-> 0, heapInuseBytes |-> 0,
     stackBytes |-> 0, sysBytes |-> 0, cpuSecondsTotal |-> 0, gcDurationP50 |-> 0,
     gcDurationP99 |-> 0, gcCount |-> 0, residentMemoryBytes |-> 0, openFds |-> 0,
     goVersion |-> "", src |-> src])

\* ------------------------------------------------------- parsed YAML trees
\* What yaml.load returns: a string, a list, an object with its keys in
\* document order, or undefined.  Every tree has the same three fields; items
\* holds the entries of an object (key k, value v) or of a list (k is "").
Undefined == [t |-> "undefined", s |-> "", items |-> << >>]
Str(s) == [t |-> "str", s |-> s, items |-> << >>]
KV(k, v) == [k |-> k, v |-> v]
Obj(items) == [t |-> "obj", s |-> "", items |-> items]
List(values) == [t |-> "list", s |-> "", items |-> [i \in 1..Len(values) |-> KV("", values[i])]]

\* obj[key]
Get(obj, key) ==
  IF obj.t = "obj" /\ \E i \in 1..Len(obj.items) : obj.items[i].k = key
  THEN obj.items[CHOOSE i \in 1..Len(obj.items) : obj.items[i].k = key].v
  ELSE Undefined

\* if (value)
Truthy(value) == value.t \in {"obj", "list"} \/ (value.t = "str" /\ value.s # "")

\* typeof value === 'string' ? value : undefined
StringOrUndefined(value) == IF value.t = "str" THEN value ELSE Undefined

getComponentType(config) ==
  LET idx == {i \in 1..Len(config.items) : config.items[i].k \notin {"label", "processors"}}
  IN IF config.t = "obj" /\ idx # {}
     THEN config.items[CHOOSE i \in idx : \A j \in idx : i <= j].k
     ELSE "unknown"

getLabel(config) ==
  IF Get(config, "label").t = "str" /\ Get(config, "label").s # ""
  THEN Get(config, "label").s
  ELSE getComponentType(config)

PipelineNode(id, type, label, componentType, metricPath, componentLabel, config) ==
  [id |-> id, type |-> type, label |-> label, componentType |-> componentType,
   metricPath |-> metricPath, componentLabel |-> componentLabel, config |-> config]

\* PipelineEdge with the target left out of the id.
PipelineEdge_SourceOnlyId(source, target) ==
  [id |-> "e-" \o source, source |-> source, target |-> target]

\* PipelineEdge with its two ends exchanged.
PipelineEdge_Reversed(source, target) ==
  [id |-> "e-" \o source \o "-" \o target, source |-> target, target |-> source]

PipelineEdge(source, target) ==
  [id |-> "e-" \o source \o "-" \o target, source |-> source, target |-> target]

\* nodes.find(n => n.id === id)
HasNode(nodes, id) == \E i \in 1..Len(nodes) : nodes[i].id = id

\* edges.some(e => e.id === edgeId)
HasEdge(edges, edgeId) == \E i \in 1..Len(edges) : edges[i].id = edgeId

\* SubOutput with no raw config kept in the child node.
SubOutput_NoConfig(sub, parentId, idPart, metricPath, i) ==
  LET subId == parentId \o "-" \o idPart \o "-" \o ToString(i)
  IN [nodes |-> << PipelineNode(subId, "output", getLabel(sub), getComponentType(sub),
                                metricPath, StringOrUndefined(Get(sub, "label")), Undefined) >>,
      edges |-> << PipelineEdge(parentId, subId) >>]

\* SubOutput numbering the ids from 1.
SubOutput_OneBased(sub, parentId, idPart, metricPath, i) ==
  LET subId == parentId \o "-" \o idPart \o "-" \o ToString(i + 1)
  IN [nodes |-> << PipelineNode(subId, "output", getLabel(sub), getComponentType(sub),
                                metricPath, StringOrUndefined(Get(sub, "label")), sub) >>,
      edges |-> << PipelineEdge(parentId, subId) >>]

\* The node and the edge pushed for the sub-output at index i (from 0) of a
\* broker, switch or fan_out.
SubOutput(sub, parentId, idPart, metricPath, i) ==
  LET subId == parentId \o "-" \o idPart \o "-" \o ToString(i)
  IN [nodes |-> << PipelineNode(subId, "output", getLabel(sub), getComponentType(sub),
                                metricPath, StringOrUndefined(Get(sub, "label")), sub) >>,
      edges |-> << PipelineEdge(parentId, subId) >>]

NoSubOutputs == [nodes |-> << >>, edges |-> << >>]

RECURSIVE BrokerFrom(_, _, _, _)
BrokerFrom(outputs, i, parentId, basePath) ==
  IF i >= Len(outputs) THEN NoSubOutputs
  ELSE LET one == SubOutput(outputs[i + 1].v, parentId, "broker",
                            basePath \o ".broker.outputs." \o ToString(i), i)
           rest == BrokerFrom(outputs, i + 1, parentId, basePath)
       IN [nodes |-> one.nodes \o rest.nodes, edges |-> one.edges \o rest.edges]

RECURSIVE SwitchFrom(_, _, _, _)
SwitchFrom(cases, i, parentId, basePath) ==
  IF i >= Len(cases) THEN NoSubOutputs
  ELSE LET outputDef == Get(cases[i + 1].v, "output")
           one == IF Truthy(outputDef)
                  THEN SubOutput(outputDef, parentId, "switch",
                                 basePath \o ".switch.cases." \o ToString(i) \o ".output", i)
                  ELSE NoSubOutputs
           rest == SwitchFrom(cases, i + 1, parentId, basePath)
       IN [nodes |-> one.nodes \o rest.nodes, edges |-> one.edges \o rest.edges]

RECURSIVE FanOutFrom(_, _, _, _)
FanOutFrom(outputs, i, parentId, basePath) ==
  IF i >= Len(outputs) THEN NoSubOutputs
  ELSE LET one == SubOutput(outputs[i + 1].v, parentId, "fanout",
                            basePath \o ".fan_out." \o ToString(i), i)
           rest == FanOutFrom(outputs, i + 1, parentId, basePath)
       IN [nodes |-> one.nodes \o rest.nodes, edges |-> one.edges \o rest.edges]

\* The entries of a value that is iterated by index up to its length: those of
\* a list, none of an object (it has no length).
Entries(value) == IF value.t = "list" THEN value.items ELSE << >>

\* extractSubOutputs expanding the sub-outputs it pushes too.
ExpandOnce_Mut(output, parentId, basePath) ==
  LET outputType == getComponentType(output)
      outputConfig == Get(output, outputType)
      isObject == outputConfig.t \in {"obj", "list"}
  IN IF outputType = "broker" /\ isObject /\ Truthy(Get(outputConfig, "outputs"))
     THEN BrokerFrom(Entries(Get(outputConfig, "outputs")), 0, parentId, basePath)
     ELSE IF outputType = "switch" /\ isObject /\ Truthy(Get(outputConfig, "cases"))
     THEN SwitchFrom(Entries(Get(outputConfig, "cases")), 0, parentId, basePath)
     ELSE IF outputType = "fan_out" /\ outputConfig.t = "list"
     THEN FanOutFrom(outputConfig.items, 0, parentId, basePath)
     ELSE NoSubOutputs

RECURSIVE ExpandEach_Mut(_, _)
ExpandEach_Mut(children, i) ==
  IF i > Len(children) THEN NoSubOutputs
  ELSE LET one == ExpandOnce_Mut(children[i].config, children[i].id, children[i].metricPath)
           rest == ExpandEach_Mut(children, i + 1)
       IN [nodes |-> one.nodes \o rest.nodes, edges |-> one.edges \o rest.edges]

extractSubOutputs_Recursive(output, parentId, basePath) ==
  LET top == ExpandOnce_Mut(output, parentId, basePath)
      nested == ExpandEach_Mut(top.nodes, 1)
  IN [nodes |-> top.nodes \o nested.nodes, edges |-> top.edges \o nested.edges]

\* extractSubOutputs, as the nodes and edges it pushes.
extractSubOutputs(output, parentId, basePath) ==
  LET outputType == getComponentType(output)
      outputConfig == Get(output, outputType)
      isObject == outputConfig.t \in {"obj", "list"}
  IN IF outputType = "broker" /\ isObject /\ Truthy(Get(outputConfig, "outputs"))
     THEN BrokerFrom(Entries(Get(outputConfig, "outputs")), 0, parentId, basePath)
     ELSE IF outputType = "switch" /\ isObject /\ Truthy(Get(outputConfig, "cases"))
     THEN SwitchFrom(Entries(Get(outputConfig, "cases")), 0, parentId, basePath)
     ELSE IF outputType = "fan_out" /\ outputConfig.t = "list"
     THEN FanOutFrom(outputConfig.items, 0, parentId, basePath)
     ELSE NoSubOutputs

\* ---- resource references
NoKey == ""

\* The references a string value under `key` inside `parentKey` adds, in the
\* order of the three tests of walk.
StringRefs(value, key, parentKey) ==
  (IF key \in {"cache", "cache_resource"} THEN << [kind |-> "cache", name |-> value] >> ELSE << >>)
  \o (IF key \in {"rate_limit", "rate_limit_resource"}
      THEN << [kind |-> "rate_limit", name |-> value] >> ELSE << >>)
  \o (IF key = "resource" /\ parentKey = "rate_limit"
      THEN << [kind |-> "rate_limit", name |-> value] >> ELSE << >>)

RECURSIVE walk(_, _, _)
RECURSIVE WalkItems(_, _, _, _)
\* walk, as the references it adds, in the order it adds them
walk(value, key, parentKey) ==
  IF value.t = "str" THEN StringRefs(value.s, key, parentKey)
  ELSE IF value.t \in {"list", "obj"} THEN WalkItems(value.items, 1, value.t = "list", key)
  ELSE << >>

WalkItems(items, i, isArray, key) ==
  IF i > Len(items) THEN << >>
  ELSE walk(items[i].v, IF isArray THEN NoKey ELSE items[i].k, key)
       \o WalkItems(items, i + 1, isArray, key)

\* The names of one kind among refs, each once, in the order first added
\* (the iteration order of a Set).
RECURSIVE NamesOf(_, _, _, _)
NamesOf(refs, kind, i, acc) ==
  IF i > Len(refs) THEN acc
  ELSE NamesOf(refs, kind, i + 1,
         IF refs[i].kind = kind /\ \A j \in 1..Len(acc) : acc[j] # refs[i].name
         THEN Append(acc, refs[i].name) ELSE acc)

extractResourceRefs(obj) ==
  LET refs == walk(obj, NoKey, NoKey)
  IN [caches |-> NamesOf(refs, "cache", 1, << >>),
      rateLimits |-> NamesOf(refs, "rate_limit", 1, << >>)]

\* The lookup map of connectResources for one resource type: label -> node id,
\* a later node of the same label replacing an earlier one.
ResourceIds(nodes, type) ==
  LET labels == {nodes[i].label : i \in {j \in 1..Len(nodes) : nodes[j].type = type}}
  IN [l \in labels |->
        nodes[CHOOSE i \in 1..Len(nodes) :
                /\ nodes[i].type = type /\ nodes[i].label = l
                /\ \A j \in 1..Len(nodes) :
                     (nodes[j].type = type /\ nodes[j].label = l) => j <= i].id]

\* ResourceEdges with an edge pushed for a name that no resource node carries.
RECURSIVE ResourceEdges_NoLookupTest(_, _, _, _, _)
ResourceEdges_NoLookupTest(names, i, byLabel, ndId, edges) ==
  IF i > Len(names) THEN edges
  ELSE LET resId == IF names[i] \in DOMAIN byLabel THEN byLabel[names[i]] ELSE "undefined"
           edge == PipelineEdge(ndId, resId)
       IN ResourceEdges_NoLookupTest(names, i + 1, byLabel, ndId,
            IF ~HasEdge(edges, edge.id) THEN Append(edges, edge) ELSE edges)

\* One of the two inner loops of connectResources: the edges after the edges
\* from node ndId to the resources named are pushed.
RECURSIVE ResourceEdges(_, _, _, _, _)
ResourceEdges(names, i, byLabel, ndId, edges) ==
  IF i > Len(names) THEN edges
  ELSE ResourceEdges(names, i + 1, byLabel, ndId,
         IF names[i] \in DOMAIN byLabel /\ byLabel[names[i]] # ""
            /\ ~HasEdge(edges, PipelineEdge(ndId, byLabel[names[i]]).id)
         THEN Append(edges, PipelineEdge(ndId, byLabel[names[i]]))
         ELSE edges)

RECURSIVE ConnectFrom(_, _, _, _, _)
ConnectFrom(nodes, i, caches, rateLimits, edges) ==
  IF i > Len(nodes) THEN edges
  ELSE IF nodes[i].type \in {"cache", "rate_limit"} \/ ~Truthy(nodes[i].config)
  THEN ConnectFrom(nodes, i + 1, caches, rateLimits, edges)
  ELSE LET refs == extractResourceRefs(nodes[i].config)
           withCaches == ResourceEdges(refs.caches, 1, caches, nodes[i].id, edges)
       IN ConnectFrom(nodes, i + 1, caches, rateLimits,
                      ResourceEdges(refs.rateLimits, 1, rateLimits, nodes[i].id, withCaches))

\* connectResources, as the edges after it
connectResources(nodes, edges) ==
  LET caches == ResourceIds(nodes, "cache")
      rateLimits == ResourceIds(nodes, "rate_limit")
  IN IF DOMAIN caches = {} /\ DOMAIN rateLimits = {} THEN edges
     ELSE ConnectFrom(nodes, 1, caches, rateLimits, edges)

\* ---- configToGraph
InputNodes(config) ==
  LET input == Get(config, "input")
  IN IF Truthy(input)
     THEN << PipelineNode("input", "input", getLabel(input), getComponentType(input),
                          "root.input", StringOrUndefined(Get(input, "label")), input) >>
     ELSE << >>

\* config.pipeline?.processors ?? []
Processors(config) ==
  LET pipeline == Get(config, "pipeline")
      processors == Get(pipeline, "processors")
  IN IF processors.t = "list" THEN processors.items ELSE << >>

ProcessorId(i) == "processor-" \o ToString(i)

\* ProcessorsFrom pushing the edge from the previous node without looking
\* whether that node exists.
RECURSIVE ProcessorsFrom_NoSourceTest(_, _, _)
ProcessorsFrom_NoSourceTest(processors, i, acc) ==
  IF i >= Len(processors) THEN acc
  ELSE LET proc == processors[i + 1].v
           nodes == Append(acc.nodes,
                      PipelineNode(ProcessorId(i), "processor", getLabel(proc),
                                   getComponentType(proc),
                                   "root.pipeline.processors." \o ToString(i),
                                   StringOrUndefined(Get(proc, "label")), proc))
           prevId == IF i = 0 THEN "input" ELSE ProcessorId(i - 1)
       IN ProcessorsFrom_NoSourceTest(processors, i + 1,
            [nodes |-> nodes, edges |-> Append(acc.edges, PipelineEdge(prevId, ProcessorId(i)))])

\* The processors loop of configToGraph, from index i (from 0).
RECURSIVE ProcessorsFrom(_, _, _)
ProcessorsFrom(processors, i, acc) ==
  IF i >= Len(processors) THEN acc
  ELSE LET proc == processors[i + 1].v
           nodes == Append(acc.nodes,
                      PipelineNode(ProcessorId(i), "processor", getLabel(proc),
                                   getComponentType(proc),
                                   "root.pipeline.processors." \o ToString(i),
                                   StringOrUndefined(Get(proc, "label")), proc))
           prevId == IF i = 0 THEN "input" ELSE ProcessorId(i - 1)
       IN ProcessorsFrom(processors, i + 1,
            [nodes |-> nodes,
             edges |-> IF HasNode(nodes, prevId)
                       THEN Append(acc.edges, PipelineEdge(prevId, ProcessorId(i)))
                       ELSE acc.edges])

\* The output section of configToGraph.
WithOutput(config, acc) ==
  LET output == Get(config, "output")
      n == Len(Processors(config))
      nodes == Append(acc.nodes,
                 PipelineNode("output", "output", getLabel(output), getComponentType(output),
                              "root.output", StringOrUndefined(Get(output, "label")), output))
      prevId == IF n > 0 THEN ProcessorId(n - 1) ELSE "input"
      edges == IF HasNode(nodes, prevId)
               THEN Append(acc.edges, PipelineEdge(prevId, "output"))
               ELSE acc.edges
      subs == extractSubOutputs(output, "output", "root.output")
  IN IF Truthy(output)
     THEN [nodes |-> nodes \o subs.nodes, edges |-> edges \o subs.edges]
     ELSE acc

\* The cache_resources / rate_limit_resources section of configToGraph.
ResourceNodes(list, type, idPart) ==
  IF Truthy(list)
  THEN [i \in 1..Len(Entries(list)) |->
          LET res == list.items[i].v
              label == IF Truthy(Get(res, "label")) THEN Get(res, "label").s
                       ELSE getComponentType(res)
          IN PipelineNode(idPart \o "-" \o ToString(i - 1), type, label, getComponentType(res),
                          "root.resource." \o type \o "." \o label, Str(label), res)]
  ELSE << >>

\* Whether configToGraph throws: config.input is a TypeError when yaml.load
\* returned undefined, which it does for a text without a document.
Throws(config) == config.t = "undefined"

\* configToGraph from its second statement on, as the graph it returns
configToGraph(config) ==
  LET withProcessors == ProcessorsFrom(Processors(config), 0,
                                       [nodes |-> InputNodes(config), edges |-> << >>])
      withOutput == WithOutput(config, withProcessors)
      nodes == withOutput.nodes
                 \o ResourceNodes(Get(config, "cache_resources"), "cache", "cache")
                 \o ResourceNodes(Get(config, "rate_limit_resources"), "rate_limit", "rate-limit")
  IN [nodes |-> nodes, edges |-> connectResources(nodes, withOutput.edges)]

\* ------------------------------------------------- the exposition text
\* A text is the sequence of its characters, each a string of length one.
Lower == {"a", "b", "c", "d", "e", "f", "g", "h", "i", "j", "k", "l", "m", "n", "o", "p", "q",
          "r", "s", "t", "u", "v", "w", "x", "y", "z"}
Upper == {"A", "B", "C", "D", "E", "F", "G", "H", "I", "J", "K", "L", "M", "N", "O", "P", "Q",
          "R", "S", "T", "U", "V", "W", "X", "Y", "Z"}
Digit == {"0", "1", "2", "3", "4", "5", "6", "7", "8", "9"}
Whitespace == {" ", "\t", "\r"}
Newline == "\n"
Quote == "\""
Backslash == "\\"

\* str.slice(from - 1, to) for positions from 1
Slice(str, from, to) == IF from > to THEN << >> ELSE SubSeq(str, from, to)

\* The string of a sequence of characters.
RECURSIVE StringOf(_)
StringOf(chars) == IF chars = << >> THEN "" ELSE Head(chars) \o StringOf(Tail(chars))

\* The number of characters of str from position i on that are in class.
RECURSIVE Run(_, _, _)
Run(str, i, class) ==
  IF i <= Len(str) /\ str[i] \in class THEN 1 + Run(str, i + 1, class) ELSE 0

\* text.split('\n')
RECURSIVE Split(_)
Split(str) ==
  IF \E i \in 1..Len(str) : str[i] = Newline
  THEN LET i == CHOOSE x \in 1..Len(str) :
                  str[x] = Newline /\ \A y \in 1..(x - 1) : str[y] # Newline
       IN << Slice(str, 1, i - 1) >> \o Split(Slice(str, i + 1, Len(str)))
  ELSE << str >>

\* line.trim()
RECURSIVE Trim(_)
Trim(line) ==
  IF line # << >> /\ line[1] \in Whitespace THEN Trim(Tail(line))
  ELSE IF line # << >> /\ line[Len(line)] \in Whitespace THEN Trim(Slice(line, 1, Len(line) - 1))
  ELSE line

\* ---- the value
NaN == [kind |-> "NaN", num |-> 0, den |-> 1]
Infinity == [kind |-> "Infinity", num |-> 1, den |-> 1]
MinusInfinity == [kind |-> "Infinity", num |-> -1, den |-> 1]
Number(num, den) == [kind |-> "number", num |-> Rat(num, den).num, den |-> Rat(num, den).den]

DigitValue(c) ==
  CASE c = "0" -> 0 [] c = "1" -> 1 [] c = "2" -> 2 [] c = "3" -> 3 [] c = "4" -> 4
    [] c = "5" -> 5 [] c = "6" -> 6 [] c = "7" -> 7 [] c = "8" -> 8 [] c = "9" -> 9

\* The number the digits are the decimal numeral of; 0 for no digits.
RECURSIVE Decimal(_)
Decimal(digits) ==
  IF digits = << >> THEN 0
  ELSE 10 * Decimal(Slice(digits, 1, Len(digits) - 1)) + DigitValue(digits[Len(digits)])

RECURSIVE Pow10(_)
Pow10(n) == IF n = 0 THEN 1 ELSE 10 * Pow10(n - 1)

\* parseFloat: the longest prefix that is a decimal literal, NaN if there is
\* none.  (No token of a matched line starts with Infinity.)
parseFloat(str) ==
  LET signed == str # << >> /\ str[1] \in {"+", "-"}
      sign == IF signed /\ str[1] = "-" THEN -1 ELSE 1
      int == IF signed THEN 2 ELSE 1
      intLen == Run(str, int, Digit)
      dot == int + intLen
      hasDot == dot <= Len(str) /\ str[dot] = "."
      fracLen == IF hasDot THEN Run(str, dot + 1, Digit) ELSE 0
      mantissaEnd == IF hasDot /\ intLen + fracLen > 0 THEN dot + fracLen ELSE dot - 1
      e == mantissaEnd + 1
      hasE == e <= Len(str) /\ str[e] \in {"e", "E"}
      expSigned == hasE /\ e + 1 <= Len(str) /\ str[e + 1] \in {"+", "-"}
      exp == IF expSigned THEN e + 2 ELSE e + 1
      expLen == IF hasE THEN Run(str, exp, Digit) ELSE 0
      exponent == Decimal(Slice(str, exp, exp + expLen - 1))
      negExp == expSigned /\ str[e + 1] = "-"
      mantissa == Decimal(Slice(str, int, int + intLen - 1)) * Pow10(fracLen)
                    + Decimal(Slice(str, dot + 1, dot + fracLen))
  IN IF intLen + fracLen = 0 THEN NaN
     ELSE IF negExp
     THEN Number(sign * mantissa, Pow10(fracLen) * Pow10(exponent))
     ELSE Number(sign * mantissa * Pow10(exponent), Pow10(fracLen))

\* ---- the labels
LabelStart == Lower \cup Upper \cup {"_"}
LabelChar == LabelStart \cup Digit

\* The end of the match of /([a-zA-Z_][a-zA-Z0-9_]*)="([^"\\]*)"/ that starts
\* at position i of str, 0 if there is none.
LabelMatchEnd(str, i) ==
  LET nameLen == Run(str, i, LabelChar)
      eq == i + nameLen
      valueLen == Run(str, eq + 2, {c \in {str[x] : x \in 1..Len(str)} : c \notin {Quote, Backslash}})
      close == eq + 2 + valueLen
  IN IF /\ i <= Len(str) /\ str[i] \in LabelStart
        /\ eq + 1 <= Len(str) /\ str[eq] = "=" /\ str[eq + 1] = Quote
        /\ close <= Len(str) /\ str[close] = Quote
     THEN close ELSE 0

\* The while loop over labelRegex.exec: the labels record after the matches
\* found from position i on, a later pair replacing an earlier one of its name.
RECURSIVE LabelsFrom(_, _, _)
LabelsFrom(str, i, labels) ==
  IF i > Len(str) THEN labels
  ELSE IF LabelMatchEnd(str, i) = 0 THEN LabelsFrom(str, i + 1, labels)
  ELSE LET close == LabelMatchEnd(str, i)
           nameLen == Run(str, i, LabelChar)
           name == StringOf(Slice(str, i, i + nameLen - 1))
           value == StringOf(Slice(str, i + nameLen + 2, close - 1))
       IN LabelsFrom(str, close + 1,
                     [k \in DOMAIN labels \cup {name} |-> IF k = name THEN value ELSE labels[k]])

\* ---- a line
NameStart == Lower \cup Upper \cup {"_", ":"}
NameChar == NameStart \cup Digit
ValueChar == Digit \cup {".", "e", "E", "+", "-"}
ValueSuffixes == { << >>, <<"N", "a", "N">>, <<"I", "n", "f">>, <<"+", "I", "n", "f">>,
                   <<"-", "I", "n", "f">> }

\* token matches -?[\d.eE+-]+(?:NaN|Inf|\+Inf|-Inf)?
IsValueToken(token) ==
  \E suffix \in ValueSuffixes :
    LET n == Len(token) - Len(suffix)
    IN /\ n >= 1
       /\ Slice(token, n + 1, Len(token)) = suffix
       /\ \A i \in 1..n : token[i] \in ValueChar

\* trimmed.match(...): whether the line matches, and its three groups.
Match(trimmed) ==
  LET nameLen == IF trimmed # << >> /\ trimmed[1] \in NameStart THEN Run(trimmed, 1, NameChar)
                 ELSE 0
      open == nameLen + 1
      braced == open <= Len(trimmed) /\ trimmed[open] = "{"
      inner == IF braced
               THEN Run(trimmed, open + 1, {c \in {trimmed[x] : x \in 1..Len(trimmed)} : c # "}"})
               ELSE 0
      close == open + 1 + inner
      space == IF braced THEN close + 1 ELSE open
      spaces == Run(trimmed, space, Whitespace \cup {Newline})
      token == Slice(trimmed, space + spaces, Len(trimmed))
  IN [ok |-> /\ nameLen >= 1
             /\ braced => close <= Len(trimmed)
             /\ spaces >= 1
             /\ IsValueToken(token),
      name |-> Slice(trimmed, 1, nameLen),
      labelsStr |-> IF braced THEN Slice(trimmed, open + 1, close - 1) ELSE << >>,
      value |-> token]

\* The loop of parsePrometheusText from line i on.
RECURSIVE ParseFrom(_, _)
ParseFrom(lines, i) ==
  IF i > Len(lines) THEN << >>
  ELSE LET trimmed == Trim(lines[i])
           match == Match(trimmed)
       IN (IF trimmed = << >> \/ trimmed[1] = "#" \/ ~match.ok THEN << >>
           ELSE << Sample(StringOf(match.name), LabelsFrom(match.labelsStr, 1, NoTags),
                          parseFloat(match.value)) >>)
          \o ParseFrom(lines, i + 1)

parsePrometheusText(str) == ParseFrom(Split(str), 1)

\* ----------------------------------------------------------------- the view
MIN_EDGE_WIDTH == Rat(3, 2)
MAX_EDGE_WIDTH == 8
OVERFLOW_EXTRA_WIDTH == 2

\* A value that may be undefined: << >> is undefined, << v >> is v.
None == << >>
Some(v) == << v >>

\* a ?? b
OrElse(a, b) == IF a # None THEN a ELSE b

\* map.get(key)
MapGet(map, key) == IF key \in DOMAIN map THEN Some(map[key]) ELSE None

\* m?.f
Field(m, f) == IF m # None /\ f \in DOMAIN m[1] THEN Some(m[1][f]) ELSE None

\* Arithmetic of fractions: an integer n is the fraction n/1.
Frac(n) == Rat(n, 1)
Plus(a, b) == Rat(a.num * b.den + b.num * a.den, a.den * b.den)
Minus(a, b) == Rat(a.num * b.den - b.num * a.den, a.den * b.den)
Times(a, b) == Rat(a.num * b.num, a.den * b.den)
Less(a, b) == a.num * b.den < b.num * a.den

\* nodes.find(n => n.id === id)
Find(nodes, id) ==
  IF HasNode(nodes, id)
  THEN Some(nodes[CHOOSE i \in 1..Len(nodes) :
                    nodes[i].id = id /\ \A j \in 1..(i - 1) : nodes[j].id # id])
  ELSE None

\* The data of a laid out node.
PipelineNodeData(node) ==
  [label |-> node.label, nodeType |-> node.type, componentType |-> node.componentType,
   metricPath |-> node.metricPath, componentLabel |-> node.componentLabel,
   config |-> node.config]

\* layoutGraph: the nodes with their data and the edges with their style.  The
\* positions dagre computes, and the size of the expanded node they depend on,
\* are left out.
layoutGraph(graph) ==
  [nodes |-> [i \in 1..Len(graph.nodes) |->
                [id |-> graph.nodes[i].id, data |-> PipelineNodeData(graph.nodes[i])]],
   edges |-> [i \in 1..Len(graph.edges) |->
                LET edge == graph.edges[i]
                    targetNode == Find(graph.nodes, edge.target)
                    isResourceEdge == /\ targetNode # None
                                      /\ targetNode[1].type \in {"cache", "rate_limit"}
                IN [id |-> edge.id, source |-> edge.source, target |-> edge.target,
                    animated |-> ~isResourceEdge,
                    style |-> IF isResourceEdge
                              THEN [stroke |-> "#585b70", strokeWidth |-> Rat(3, 2),
                                    strokeDasharray |-> "6 3"]
                              ELSE [stroke |-> "#6b7280", strokeWidth |-> Frac(2)]]]]

\* resolveNodeMetrics and resolveNodeHistory: the entry of the path, else the
\* entry of the label.
resolveNodeMetrics(nodeData, metrics) ==
  OrElse(MapGet(metrics.byPath, nodeData.metricPath),
         IF Truthy(nodeData.componentLabel)
         THEN MapGet(metrics.byLabel, nodeData.componentLabel.s)
         ELSE None)

resolveNodeHistory(nodeData, hist) == resolveNodeMetrics(nodeData, hist)

\* edgeTraffic with || in the place of ??: a 0 falls through to the next value.
edgeTraffic_ZeroFallsThrough(sourceMetrics, targetMetrics) ==
  LET Or(a, b) == IF a # None /\ a[1] # 0 THEN a ELSE b
  IN Or(Field(targetMetrics, "received"),
        Or(Field(sourceMetrics, "sent"), Field(targetMetrics, "sent")))

edgeTraffic(sourceMetrics, targetMetrics) ==
  OrElse(Field(targetMetrics, "received"),
         OrElse(Field(sourceMetrics, "sent"), Field(targetMetrics, "sent")))

\* Math.max of a number and the numbers of a sequence
RECURSIVE MaxOf(_, _)
MaxOf(n, values) ==
  IF values = << >> THEN n
  ELSE MaxOf(IF values[1] > n THEN values[1] ELSE n, Tail(values))

\* The defined values of a sequence of values that may be undefined.
RECURSIVE Defined(_)
Defined(values) ==
  IF values = << >> THEN << >>
  ELSE (IF values[1] # None THEN << values[1][1] >> ELSE << >>) \o Defined(Tail(values))

\* The edge of a zero traffic.
DeadEdge(edge) ==
  [id |-> edge.id, source |-> edge.source, target |-> edge.target, animated |-> FALSE,
   style |-> [stroke |-> "#f97316", strokeWidth |-> MIN_EDGE_WIDTH,
              strokeDasharray |-> "6 3", opacity |-> Rat(85, 100)],
   label |-> "0",
   labelStyle |-> [fill |-> "#f97316", fontSize |-> 11, fontWeight |-> 600],
   labelBgStyle |-> [fill |-> "#1e1e2e", fillOpacity |-> Rat(8, 10)]]

\* StyledEdge with the overflow tested before the zero and without the test
\* maxInputReceived > 0.
StyledEdge_OverflowFirst(edge, traffic, maxTraffic, maxInputReceived, resourceNodeIds) ==
  IF edge.target \in resourceNodeIds \/ edge.source \in resourceNodeIds THEN edge
  ELSE IF traffic = None THEN edge
  ELSE IF traffic[1] > maxInputReceived
  THEN [id |-> edge.id, source |-> edge.source, target |-> edge.target, animated |-> TRUE,
        style |-> [stroke |-> "#38bdf8",
                   strokeWidth |-> Frac(MAX_EDGE_WIDTH + OVERFLOW_EXTRA_WIDTH),
                   transition |-> "stroke-width 0.4s ease, stroke 0.4s ease"]]
  ELSE IF traffic[1] = 0 THEN DeadEdge(edge)
  ELSE [id |-> edge.id, source |-> edge.source, target |-> edge.target, animated |-> TRUE,
        style |-> [stroke |-> "#6b7280",
                   strokeWidth |-> Plus(MIN_EDGE_WIDTH,
                                        Times(Rat(traffic[1], maxTraffic),
                                              Minus(Frac(MAX_EDGE_WIDTH), MIN_EDGE_WIDTH))),
                   transition |-> "stroke-width 0.4s ease, stroke 0.4s ease"]]

\* StyledEdge with the style computed for the edges of the resources too.
StyledEdge_NoResourceTest(edge, traffic, maxTraffic, maxInputReceived, resourceNodeIds) ==
  IF traffic = None THEN edge
  ELSE IF traffic[1] = 0 THEN DeadEdge(edge)
  ELSE LET isOverflow == maxInputReceived > 0 /\ traffic[1] > maxInputReceived
       IN [id |-> edge.id, source |-> edge.source, target |-> edge.target, animated |-> TRUE,
           style |-> [stroke |-> IF isOverflow THEN "#38bdf8" ELSE "#6b7280",
                      strokeWidth |->
                        IF isOverflow THEN Frac(MAX_EDGE_WIDTH + OVERFLOW_EXTRA_WIDTH)
                        ELSE Plus(MIN_EDGE_WIDTH,
                                  Times(Rat(traffic[1], maxTraffic),
                                        Minus(Frac(MAX_EDGE_WIDTH), MIN_EDGE_WIDTH))),
                      transition |-> "stroke-width 0.4s ease, stroke 0.4s ease"]]

\* The callback of the final edges.map of buildStyledEdges.
StyledEdge(edge, traffic, maxTraffic, maxInputReceived, resourceNodeIds) ==
  IF edge.target \in resourceNodeIds \/ edge.source \in resourceNodeIds THEN edge
  ELSE IF traffic = None THEN edge
  ELSE IF traffic[1] = 0 THEN DeadEdge(edge)
  ELSE LET isOverflow == maxInputReceived > 0 /\ traffic[1] > maxInputReceived
       IN [id |-> edge.id, source |-> edge.source, target |-> edge.target, animated |-> TRUE,
           style |-> [stroke |-> IF isOverflow THEN "#38bdf8" ELSE "#6b7280",
                      strokeWidth |->
                        IF isOverflow THEN Frac(MAX_EDGE_WIDTH + OVERFLOW_EXTRA_WIDTH)
                        ELSE Plus(MIN_EDGE_WIDTH,
                                  Times(Rat(traffic[1], maxTraffic),
                                        Minus(Frac(MAX_EDGE_WIDTH), MIN_EDGE_WIDTH))),
                      transition |-> "stroke-width 0.4s ease, stroke 0.4s ease"]]

\* edgeTrafficValues of buildStyledEdges
EdgeTrafficValues(edges, nodeMetricsMap) ==
  [i \in 1..Len(edges) |->
     edgeTraffic(MapGet(nodeMetricsMap, edges[i].source),
                 MapGet(nodeMetricsMap, edges[i].target))]

\* buildStyledEdges with maxTraffic taken without the traffic of the edges.
buildStyledEdges_MaxOfInputOnly(edges, nodeMetricsMap, maxInputReceived, graph) ==
  LET resourceNodeIds == {graph.nodes[i].id :
                            i \in {j \in 1..Len(graph.nodes) :
                                     graph.nodes[j].type \in {"cache", "rate_limit"}}}
      edgeTrafficValues == EdgeTrafficValues(edges, nodeMetricsMap)
      maxTraffic == MaxOf(maxInputReceived, << 1 >>)
  IN [i \in 1..Len(edges) |->
        StyledEdge(edges[i], edgeTrafficValues[i], maxTraffic, maxInputReceived,
                   resourceNodeIds)]

buildStyledEdges(edges, nodeMetricsMap, maxInputReceived, graph) ==
  LET resourceNodeIds == {graph.nodes[i].id :
                            i \in {j \in 1..Len(graph.nodes) :
                                     graph.nodes[j].type \in {"cache", "rate_limit"}}}
      edgeTrafficValues == EdgeTrafficValues(edges, nodeMetricsMap)
      maxTraffic == MaxOf(maxInputReceived, Defined(edgeTrafficValues) \o << 1 >>)
  IN [i \in 1..Len(edges) |->
        StyledEdge(edges[i], edgeTrafficValues[i], maxTraffic, maxInputReceived,
                   resourceNodeIds)]

\* nodeMetricsMap of PipelineGraphView: the bundle of every node that
\* resolves to one.  A bundle is an object, hence truthy.
NodeMetricsMap(nodes, metrics) ==
  IF metrics = None THEN EmptyMap
  ELSE [id \in {nodes[i].id : i \in {j \in 1..Len(nodes) :
                                       resolveNodeMetrics(nodes[j].data, metrics[1]) # None}} |->
          resolveNodeMetrics(Find(nodes, id)[1].data, metrics[1])[1]]

\* maxInputReceived of PipelineGraphView
MaxInputReceived(nodes, nodeMetricsMap) ==
  MaxOf(0, Defined([i \in 1..Len(nodes) |->
                      IF nodes[i].data.nodeType = "input"
                      THEN Field(MapGet(nodeMetricsMap, nodes[i].id), "received")
                      ELSE None]))

\* nodesWithMetrics of PipelineGraphView: per node, the bundle and the history
\* injected into its data when they are defined.  No node is selected.
NodesWithMetrics(nodes, nodeMetricsMap, metrics, metricsHistory) ==
  [i \in 1..Len(nodes) |->
     [id |-> nodes[i].id,
      metrics |-> IF metrics # None THEN MapGet(nodeMetricsMap, nodes[i].id) ELSE None,
      metricsHistory |-> resolveNodeHistory(nodes[i].data, metricsHistory)]]

\* ------------------------------------------------------ the runtime panel
\* CpuEntry with the elapsed time taken in milliseconds.
CpuEntry_Millis(prev, s) ==
  LET dtSec == Frac(s.timestamp - prev.timestamp)
  IN IF dtSec.num <= 0 THEN Frac(0)
     ELSE Times(DivByRat(s.cpuSecondsTotal - prev.cpuSecondsTotal, dtSec), Frac(100))

\* The callback of the map of cpuData: the entry of snapshot s after prev.
CpuEntry(prev, s) ==
  LET dtSec == Rat(s.timestamp - prev.timestamp, 1000)
  IN IF dtSec.num <= 0 THEN Frac(0)
     ELSE Times(DivByRat(s.cpuSecondsTotal - prev.cpuSecondsTotal, dtSec), Frac(100))

\* cpuData of RuntimeMetricsPanel
cpuData(snapshots) ==
  IF Len(snapshots) < 2 THEN << >>
  ELSE [i \in 1..(Len(snapshots) - 1) |-> CpuEntry(snapshots[i], snapshots[i + 1])]

\* ------------------------------------------------------------------ state
VARIABLES
  selectedTarget,  \* App: useState selectedTarget
  now,             \* Date.now(), in ms
  inflight,        \* targets whose metrics queryFn awaits fetchMetrics
  prevSnapshot,    \* useBenthosMetrics: prevSnapshot.current
  historyRef,      \* useBenthosMetrics: historyRef.current
  history,         \* useBenthosMetrics: useState history (the published copy)
  data,            \* the metrics query's result, per query key
  rtInflight,      \* targets whose runtime queryFn awaits fetchMetrics
  rtHistoryRef,    \* useRuntimeMetrics: historyRef.current
  prevTargetRef,   \* useRuntimeMetrics: prevTargetRef.current
  rtData,          \* the runtime query's result, per query key
  pollsDone,       \* completed metrics polls
  rtPollsDone,     \* completed runtime polls
  appended,        \* every point appended since the histories were last emptied
  aliased,         \* the keys of prevSnapshot.current whose bundle is an object of the
                   \* result returned by the poll that stored it
  failedAt,        \* the time a metrics fetch last failed, 0 when none has
  rtAppended,      \* every snapshot pushed since the runtime history was last emptied
  config,          \* the parsed configuration document handed to configToGraph
  graph,           \* the config query's result
  cfgInflight,     \* targets whose config queryFn awaits fetchConfig
  metricSamples,   \* the samples handed to groupMetricsByPath
  grouped,         \* what groupMetricsByPath returned for them
  text,            \* the exposition text handed to parsePrometheusText
  parsed,          \* what parsePrometheusText returned for it
  view,            \* PipelineGraphView: what its memos hold after a render
  panel,           \* RuntimeMetricsPanel: its snapshots and its cpuData after a render
  thrown           \* per query, what its queryFn last threw before its await

appVars == <<selectedTarget, now>>
metricsVars == <<inflight, prevSnapshot, historyRef, history, data, pollsDone, appended,
                 aliased, failedAt>>
runtimeVars == <<rtInflight, rtHistoryRef, prevTargetRef, rtData, rtPollsDone, rtAppended>>
graphVars == <<config, graph, cfgInflight>>
parserVars == <<metricSamples, grouped, text, parsed>>
viewVars == <<view, panel>>
queryVars == <<thrown>>
vars == <<appVars, metricsVars, runtimeVars, graphVars, parserVars, viewVars, queryVars>>

NoResult == [status |-> "pending", byPath |-> EmptyMap, byLabel |-> EmptyMap]

Queries == {"metrics", "runtime", "config"}
NothingThrown == [q \in Queries |-> "none"]

\* dataUpdateCount is the number of results the query has had.
NoGraph == [status |-> "pending", nodes |-> << >>, edges |-> << >>, dataUpdateCount |-> 0]

InitHooks ==
  /\ selectedTarget = NoTarget
  /\ now = refetchInterval
  /\ inflight = {}
  /\ prevSnapshot = NoSnapshot
  /\ historyRef = EmptyHistory
  /\ history = EmptyHistory
  /\ data = [t \in Targets |-> NoResult]
  /\ failedAt = 0
  /\ rtInflight = {}
  /\ rtHistoryRef = <<>>
  /\ prevTargetRef = NoTarget
  /\ rtData = [t \in Targets |-> <<>>]
  /\ pollsDone = 0
  /\ rtPollsDone = 0
  /\ appended = EmptyHistory
  /\ aliased = [byPath |-> {}, byLabel |-> {}]
  /\ cfgInflight = {}
  /\ thrown = NothingThrown
  /\ rtAppended = <<>>

NoParse == [status |-> "pending", samples |-> << >>]

\* nothing handed to the parser or the aggregator
InitParser ==
  /\ metricSamples = << >>
  /\ grouped = NoResult
  /\ text = << >>
  /\ parsed = NoParse

NoView == [status |-> "pending", withMetrics |-> FALSE, nodeMetricsMap |-> EmptyMap,
           nodesWithMetrics |-> << >>, maxInputReceived |-> 0, edgeTrafficValues |-> << >>,
           styledEdges |-> << >>]

\* nothing rendered
InitView ==
  /\ view = NoView
  /\ panel = [status |-> "pending", snapshots |-> << >>, cpuData |-> << >>]

Init ==
  /\ InitHooks
  /\ InitParser
  /\ InitView
  /\ config = Undefined
  /\ graph = NoGraph

\* SelectTarget without the test of useRuntimeMetrics for a changed target.
SelectTarget_KeepsRuntimeHistory(name) ==
  /\ selectedTarget' = name
  /\ prevTargetRef' = name
  /\ UNCHANGED <<now, metricsVars, rtInflight, rtHistoryRef, rtAppended, rtData, rtPollsDone,
                 graphVars, parserVars, viewVars, thrown>>

\* ----------------------------------------------------------------- actions
\* handleTargetSelect and the render it causes: useRuntimeMetrics empties its
\* history during the render when the target differs from the one last seen;
\* useBenthosMetrics does nothing in its render but re-key its query.
SelectTarget(name) ==
  /\ selectedTarget' = name
  /\ IF name # prevTargetRef
     THEN /\ rtHistoryRef' = <<>>
          /\ prevTargetRef' = name
          /\ rtAppended' = <<>>
     ELSE UNCHANGED <<rtHistoryRef, prevTargetRef, rtAppended>>
  /\ UNCHANGED <<now, metricsVars, rtInflight, rtData, rtPollsDone, graphVars, parserVars, viewVars, thrown>>

Tick ==
  /\ now' = now + refetchInterval
  /\ UNCHANGED <<selectedTarget, metricsVars, runtimeVars, graphVars, parserVars, viewVars, thrown>>

\* The query of the selected target starts a fetch: queryFn runs to its await.
\* A query key has at most one fetch in flight.
StartMetricsPoll ==
  /\ selectedTarget # NoTarget
  /\ selectedTarget \notin inflight
  /\ inflight' = inflight \cup {selectedTarget}
  /\ UNCHANGED <<appVars, prevSnapshot, historyRef, history, data, pollsDone, appended, aliased,
                 failedAt, runtimeVars, graphVars, parserVars, viewVars, thrown>>

\* The rest of queryFn once fetchMetrics(targetName) resolved; it has no await.
queryFn(targetName, samples) ==
  /\ targetName \in inflight
  /\ LET agg == groupMetricsByPath(samples)
         prev == prevSnapshot
         dtSec == Rat(now - prev.time, 1000)
         rated == prev # NoSnapshot /\ prev.time > 0
         byPath == IF rated THEN attachRates(agg.byPath, prev.byPath, dtSec) ELSE agg.byPath
         byLabel == IF rated THEN attachRates(agg.byLabel, prev.byLabel, dtSec) ELSE agg.byLabel
         hist == [byPath |-> appendHistory(historyRef.byPath, byPath, now, targetName),
                  byLabel |-> appendHistory(historyRef.byLabel, byLabel, now, targetName)]
     IN /\ prevSnapshot' = [time |-> now, byPath |-> cloneMetricsMap(byPath),
                            byLabel |-> cloneMetricsMap(byLabel), src |-> targetName]
        /\ historyRef' = hist
        /\ history' = [byPath |-> cloneHistoryMap(hist.byPath),
                       byLabel |-> cloneHistoryMap(hist.byLabel)]
        /\ data' = [data EXCEPT ![targetName] =
                      [status |-> "success", byPath |-> byPath, byLabel |-> byLabel]]
        /\ aliased' = [byPath |-> SharedBundles(byPath), byLabel |-> SharedBundles(byLabel)]
        /\ appended' =
             [m \in {"byPath", "byLabel"} |->
                LET new == IF m = "byPath" THEN byPath ELSE byLabel
                IN [key \in DOMAIN appended[m] \cup DOMAIN new |->
                      IF key \in DOMAIN new
                      THEN Append(IF key \in DOMAIN appended[m] THEN appended[m][key] ELSE <<>>,
                                  TimePoint(new[key], now, targetName))
                      ELSE appended[m][key]]]
  /\ inflight' = inflight \ {targetName}
  /\ pollsDone' = pollsDone + 1
  /\ UNCHANGED <<appVars, failedAt, runtimeVars, graphVars>>

\* fetchMetrics(targetName) resolved with the samples of one of the responses.
MetricsPollResolve(targetName, samples) ==
  /\ queryFn(targetName, samples)
  /\ UNCHANGED <<parserVars, viewVars, thrown>>

\* MetricsPollReject taking the time of the failed fetch for the baseline's.
MetricsPollReject_MovesBaseline(targetName) ==
  /\ targetName \in inflight
  /\ inflight' = inflight \ {targetName}
  /\ failedAt' = now
  /\ prevSnapshot' = IF prevSnapshot = NoSnapshot THEN prevSnapshot
                     ELSE [prevSnapshot EXCEPT !.time = now]
  /\ UNCHANGED <<appVars, historyRef, history, data, pollsDone, appended, aliased,
                 runtimeVars, graphVars, parserVars, viewVars, thrown>>

\* fetchMetrics(targetName) rejected: queryFn throws at its await.
MetricsPollReject(targetName) ==
  /\ targetName \in inflight
  /\ inflight' = inflight \ {targetName}
  /\ failedAt' = now
  /\ UNCHANGED <<appVars, prevSnapshot, historyRef, history, data, pollsDone, appended, aliased,
                 runtimeVars, graphVars, parserVars, viewVars, thrown>>

\* A consumer of the result the query returned for targetName assigns 0 to a
\* field of one of its bundles; the assignment is seen through every reference
\* to that object.
MutateResult(targetName, m, key, f) ==
  /\ data[targetName].status = "success"
  /\ key \in DOMAIN data[targetName][m]
  /\ f \in DOMAIN data[targetName][m][key]
  /\ data' = [data EXCEPT ![targetName][m][key][f] = 0]
  /\ prevSnapshot' = IF prevSnapshot.src = targetName /\ key \in aliased[m]
                     THEN [prevSnapshot EXCEPT ![m][key][f] = 0]
                     ELSE prevSnapshot
  /\ UNCHANGED <<appVars, inflight, historyRef, history, pollsDone, appended, aliased,
                 failedAt, runtimeVars, graphVars, parserVars, viewVars, thrown>>

\* resetHistory without its last statement: the baseline is kept.
resetHistory_KeepsBaseline ==
  /\ historyRef' = EmptyHistory
  /\ history' = EmptyHistory
  /\ appended' = EmptyHistory
  /\ UNCHANGED <<appVars, inflight, prevSnapshot, aliased, data, pollsDone, failedAt, runtimeVars,
                 graphVars, parserVars, viewVars, thrown>>

resetHistory ==
  /\ historyRef' = EmptyHistory
  /\ history' = EmptyHistory
  /\ prevSnapshot' = NoSnapshot
  /\ appended' = EmptyHistory
  /\ aliased' = [byPath |-> {}, byLabel |-> {}]
  /\ UNCHANGED <<appVars, inflight, data, pollsDone, failedAt, runtimeVars, graphVars, parserVars,
                 viewVars, thrown>>

StartRuntimePoll ==
  /\ selectedTarget # NoTarget
  /\ selectedTarget \notin rtInflight
  /\ rtInflight' = rtInflight \cup {selectedTarget}
  /\ UNCHANGED <<appVars, metricsVars, rtHistoryRef, prevTargetRef, rtData, rtPollsDone,
                 rtAppended, graphVars, parserVars, viewVars, thrown>>

\* fetchMetrics(targetName) resolved: buildSnapshot(text)
RuntimePollResolve(targetName, samples) ==
  /\ targetName \in rtInflight
  /\ LET snap == RuntimeSnapshot(samples, now, targetName)
         hist == TrimFront(Append(rtHistoryRef, snap), MAX_HISTORY)
     IN /\ rtHistoryRef' = hist
        /\ rtData' = [rtData EXCEPT ![targetName] = hist]
        /\ rtAppended' = Append(rtAppended, snap)
  /\ rtInflight' = rtInflight \ {targetName}
  /\ rtPollsDone' = rtPollsDone + 1
  /\ UNCHANGED <<appVars, metricsVars, prevTargetRef, graphVars, parserVars, viewVars, thrown>>

RuntimePollReject(targetName) ==
  /\ targetName \in rtInflight
  /\ rtInflight' = rtInflight \ {targetName}
  /\ UNCHANGED <<appVars, metricsVars, rtHistoryRef, prevTargetRef, rtData, rtPollsDone,
                 rtAppended, graphVars, parserVars, viewVars, thrown>>

\* ---------------------------------------------------------------- refetch
\* TargetError of a queryFn without its first statement.
TargetError_NoTest(targetName) == "none"

\* The first statement of the three queryFns: what it throws for targetName.
TargetError(targetName) ==
  IF targetName = NoTarget THEN "No target selected" ELSE "none"

\* The queryFn of the metrics query invoked, enabled or not, with the selected
\* target: it throws, or it runs to its await with the fetch issued.
RefetchMetrics ==
  /\ selectedTarget \notin inflight
  /\ thrown' = [thrown EXCEPT !.metrics = TargetError(selectedTarget)]
  /\ inflight' = IF TargetError(selectedTarget) = "none"
                 THEN inflight \cup {selectedTarget} ELSE inflight
  /\ UNCHANGED <<appVars, prevSnapshot, historyRef, history, data, pollsDone, appended, aliased,
                 failedAt, runtimeVars, graphVars, parserVars, viewVars>>

\* The same of the runtime query.
RefetchRuntime ==
  /\ selectedTarget \notin rtInflight
  /\ thrown' = [thrown EXCEPT !.runtime = TargetError(selectedTarget)]
  /\ rtInflight' = IF TargetError(selectedTarget) = "none"
                   THEN rtInflight \cup {selectedTarget} ELSE rtInflight
  /\ UNCHANGED <<appVars, metricsVars, rtHistoryRef, prevTargetRef, rtData, rtPollsDone,
                 rtAppended, graphVars, parserVars, viewVars>>

\* The same of the config query.
RefetchConfig ==
  /\ selectedTarget \notin cfgInflight
  /\ thrown' = [thrown EXCEPT !.config = TargetError(selectedTarget)]
  /\ cfgInflight' = IF TargetError(selectedTarget) = "none"
                    THEN cfgInflight \cup {selectedTarget} ELSE cfgInflight
  /\ UNCHANGED <<config, graph, appVars, metricsVars, runtimeVars, parserVars, viewVars>>

\* ------------------------------------------------- the /metrics responses
PathIn == "root.input"
PathOut == "root.output"
InTags == Tags2("path", PathIn, "label", "gen")
OutTags == Tag("path", PathOut)

Response(received, sent, cpu) ==
  << Sample("input_received", InTags, received),
     Sample("output_sent", OutTags, sent),
     Sample("process_cpu_seconds_total", NoTags, cpu) >>

Responses ==
  { Response(100, 90, 2),
    Response(150, 120, 3),
    << Sample("input_received", InTags, 80),
       Sample("input_latency_ns", Tags2("path", PathIn, "quantile", "0.99"), 7),
       Sample("output_error", OutTags, 1),
       Sample("go_goroutines", NoTags, 8) >> }

\* The application with the component-metrics hook polling; the fetches that
\* fail are those of SpecPolls.
Next ==
  \/ \E name \in Targets : SelectTarget(name)
  \/ now < refetchInterval * (MaxTicks + 1) /\ Tick
  \/ StartMetricsPoll
  \/ \E t \in Targets, r \in Responses : pollsDone < MaxPolls /\ MetricsPollResolve(t, r)
  \/ resetHistory

Spec == Init /\ [][Next]_vars

\* The component-metrics hook polling one target, and a consumer that writes
\* into the counters of the results it is handed.
NextClone ==
  \/ selectedTarget = NoTarget /\ SelectTarget("X")
  \/ now < refetchInterval * (MaxTicks + 1) /\ Tick
  \/ StartMetricsPoll
  \/ \E r \in Responses : pollsDone < MaxPolls /\ MetricsPollResolve("X", r)
  \/ \E m \in {"byPath", "byLabel"}, key \in {PathIn, PathOut, "gen"},
        f \in {"received", "sent", "error"} : MutateResult("X", m, key, f)

SpecClone == Init /\ [][NextClone]_vars

\* The component-metrics hook polling one target, with responses of which
\* some lack the output's samples, so that a key leaves the aggregate and
\* comes back.
PollResponses ==
  Responses \cup { << Sample("input_received", InTags, 120) >> }

NextPolls ==
  \/ selectedTarget = NoTarget /\ SelectTarget("X")
  \/ now < refetchInterval * (MaxTicks + 1) /\ Tick
  \/ StartMetricsPoll
  \/ \E t \in Targets, r \in PollResponses : pollsDone < MaxPolls /\ MetricsPollResolve(t, r)
  \/ \E t \in Targets : MetricsPollReject(t)
  \/ resetHistory

SpecPolls == Init /\ [][NextPolls]_vars

\* The application with the runtime-metrics hook polling.
NextRt ==
  \/ \E name \in Targets : SelectTarget(name)
  \/ now < refetchInterval * (MaxTicks + 1) /\ Tick
  \/ StartRuntimePoll
  \/ \E t \in Targets, r \in Responses : rtPollsDone < MaxRtPolls /\ RuntimePollResolve(t, r)
  \/ \E t \in Targets : RuntimePollReject(t)

SpecRt == Init /\ [][NextRt]_vars

\* The steady state of one target: both hooks refetch on the same interval, so
\* a cycle is: both queries start, the interval passes, both fetches resolve.
\* Cycle n reports received = 10 n for the input and, on every other cycle,
\* sent = 9 n for the output.
CycleTime(n) == refetchInterval * (n + 1)

HistResponse(n) ==
  << Sample("input_received", InTags, 10 * n),
     Sample("process_cpu_seconds_total", NoTags, n) >>
  \o (IF n % 2 = 0 THEN << Sample("output_sent", OutTags, 9 * n) >> ELSE << >>)

HistSelect == selectedTarget = NoTarget /\ SelectTarget("X")

HistSwitch ==
  /\ selectedTarget = "X"
  /\ inflight = {} /\ rtInflight = {}
  /\ pollsDone = rtPollsDone
  /\ pollsDone < MaxHistSwitchAt
  /\ SelectTarget("Y")

HistStartMetrics ==
  /\ inflight = {} /\ rtInflight = {}
  /\ pollsDone = rtPollsDone
  /\ pollsDone < MaxHistPolls
  /\ StartMetricsPoll

HistStartRuntime == inflight # {} /\ now = CycleTime(pollsDone) /\ StartRuntimePoll

HistTick == inflight # {} /\ rtInflight # {} /\ now = CycleTime(pollsDone) /\ Tick

HistResolveMetrics ==
  /\ now = CycleTime(pollsDone + 1)
  /\ \E t \in Targets : MetricsPollResolve(t, HistResponse(pollsDone))

HistResolveRuntime ==
  /\ now = CycleTime(rtPollsDone + 1)
  /\ \E t \in Targets : RuntimePollResolve(t, HistResponse(rtPollsDone))

NextHist ==
  \/ HistSelect
  \/ HistSwitch
  \/ HistStartMetrics
  \/ HistStartRuntime
  \/ HistTick
  \/ HistResolveMetrics
  \/ HistResolveRuntime

SpecHist == Init /\ [][NextHist]_vars


\* ------------------------------------------------------ the configurations
EmptyParams == Obj(<< >>)
Stdout == Obj(<< KV("stdout", EmptyParams) >>)
Labelled(label, component) == Obj(<< KV("label", Str(label)) >> \o component.items)

InputChoices ==
  { Undefined,
    Obj(<< KV("generate", Obj(<< KV("mapping", Str("root = {}")) >>)) >>),
    Labelled("gen", Obj(<< KV("http_client", Obj(<< KV("rate_limit", Str("rl")),
                                                    KV("rate_limit_resource", Str("rl")) >>)) >>)) }

ProcessorChoices ==
  { Obj(<< KV("mapping", Str("root = this")) >>),
    Labelled("d", Obj(<< KV("dedupe", Obj(<< KV("cache", Str("mem")) >>)) >>)),
    Obj(<< KV("rate_limit", Obj(<< KV("resource", Str("rl")) >>)) >>),
    Obj(<< KV("cache", Str("mem")), KV("mapping", Str("root = this")) >>) }

ProcessorLists == UNION {[1..n -> ProcessorChoices] : n \in 0..MaxProcessors}

\* no pipeline section, a pipeline section without processors, or a list
PipelineChoices ==
  {Undefined, Obj(<< >>)} \cup {Obj(<< KV("processors", List(ps)) >>) : ps \in ProcessorLists}

Broker(outputs) == Obj(<< KV("broker", Obj(<< KV("pattern", Str("fan_out")), KV("outputs", List(outputs)) >>)) >>)
Case(output) == Obj(<< KV("check", Str("this.a")), KV("output", output) >>)
Switch(cases) == Obj(<< KV("switch", Obj(<< KV("cases", List(cases)) >>)) >>)
FanOut(outputs) == Obj(<< KV("fan_out", List(outputs)) >>)
CacheOutput == Obj(<< KV("cache", Obj(<< KV("target", Str("mem")) >>)), KV("rate_limit", Str("rl")) >>)

OutputChoices ==
  { Undefined,
    Stdout,
    Labelled("out", Broker(<< Stdout, Labelled("b", Stdout) >>)),
    Broker(<< Broker(<< Stdout, Stdout >>), CacheOutput >>),
    Broker(<< >>),
    Obj(<< KV("broker", Obj(<< KV("pattern", Str("fan_out")) >>)) >>),
    Switch(<< Case(Stdout), Case(Labelled("s", Switch(<< Case(Stdout) >>))) >>),
    Switch(<< Case(Stdout), Obj(<< KV("check", Str("this.b")) >>), Case(CacheOutput) >>),
    FanOut(<< Stdout, FanOut(<< Stdout >>), Labelled("f", Stdout) >>) }

CacheChoices ==
  { Undefined,
    List(<< >>),
    List(<< Labelled("mem", Obj(<< KV("memory", EmptyParams) >>)) >>),
    List(<< Obj(<< KV("memory", EmptyParams) >>) >>),
    List(<< Labelled("mem", Obj(<< KV("memory", EmptyParams) >>)),
            Labelled("mem", Obj(<< KV("redis", EmptyParams) >>)) >>) }

RateLimitChoices ==
  { Undefined,
    List(<< Labelled("rl", Obj(<< KV("local", EmptyParams) >>)) >>) }

\* A document with the sections that are not undefined, in the usual order.
Document(input, pipeline, output, caches, rateLimits) ==
  LET Section(k, v) == IF v = Undefined THEN << >> ELSE << KV(k, v) >>
  IN Obj(Section("input", input) \o Section("pipeline", pipeline) \o Section("output", output)
         \o Section("cache_resources", caches) \o Section("rate_limit_resources", rateLimits))

\* The documents of the texts with any of the sections, and of the empty text.
Configs ==
  {Document(i, p, o, c, r) : i \in InputChoices, p \in PipelineChoices, o \in OutputChoices,
                             c \in CacheChoices, r \in RateLimitChoices}
  \cup {Undefined}

\* The config query of the selected target starts its fetch.
StartConfigFetch ==
  /\ selectedTarget # NoTarget
  /\ selectedTarget \notin cfgInflight
  /\ graph.status = "pending"
  /\ cfgInflight' = cfgInflight \cup {selectedTarget}
  /\ UNCHANGED <<config, graph, appVars, metricsVars, runtimeVars, parserVars, viewVars, thrown>>

\* ConfigResolve with the time of the resolution in the ids of the edges.
ConfigResolve_TimeInEdgeIds ==
  /\ selectedTarget \in cfgInflight
  /\ cfgInflight' = cfgInflight \ {selectedTarget}
  /\ graph' = IF Throws(config)
              THEN [graph EXCEPT !.status = "error"]
              ELSE [status |-> "success", nodes |-> configToGraph(config).nodes,
                    edges |-> [i \in 1..Len(configToGraph(config).edges) |->
                                 [configToGraph(config).edges[i] EXCEPT
                                    !.id = @ \o "-" \o ToString(now)]],
                    dataUpdateCount |-> graph.dataUpdateCount + 1]
  /\ UNCHANGED <<config, appVars, metricsVars, runtimeVars, parserVars, viewVars, thrown>>

\* useBenthosConfig: the fetched document is resolved into the graph; a
\* refetch resolves it again.
ConfigResolve ==
  /\ selectedTarget \in cfgInflight
  /\ cfgInflight' = cfgInflight \ {selectedTarget}
  /\ graph' = IF Throws(config)
              THEN [graph EXCEPT !.status = "error"]
              ELSE [status |-> "success", nodes |-> configToGraph(config).nodes,
                    edges |-> configToGraph(config).edges,
                    dataUpdateCount |-> graph.dataUpdateCount + 1]
  /\ UNCHANGED <<config, appVars, metricsVars, runtimeVars, parserVars, viewVars, thrown>>

InitGraph ==
  /\ InitHooks
  /\ InitView
  /\ InitParser
  /\ config \in Configs
  /\ graph = NoGraph

NextGraph ==
  \/ selectedTarget = NoTarget /\ SelectTarget("X")
  \/ StartConfigFetch
  \/ ConfigResolve

SpecGraph == InitGraph /\ [][NextGraph]_vars

\* ------------------------------------------------------------ the samples
Tags3(k1, v1, k2, v2, k3, v3) ==
  [x \in {k1, k2, k3} |-> IF x = k1 THEN v1 ELSE IF x = k2 THEN v2 ELSE v3]

\* Samples of one component (path root.input, label gen) with both tags, with
\* one, with none and with an empty one; counters, gauges, latencies of three
\* quantiles, and a name that is not in the table.
SampleChoices ==
  { Sample("input_received", Tags2("path", "root.input", "label", "gen"), 5),
    Sample("processor_received", Tag("path", "root.input"), 0),
    Sample("output_sent", Tag("label", "gen"), 3),
    Sample("input_received", NoTags, 5),
    Sample("output_error", Tags2("path", "", "label", "gen"), 2),
    Sample("input_latency_ns", Tags3("path", "root.input", "label", "gen", "quantile", "0.5"), 7),
    Sample("input_latency_ns", Tags2("path", "root.input", "quantile", "0.99"), 9),
    Sample("output_latency_ns", Tags2("path", "root.input", "label", "gen"), 4),
    Sample("input_connection_up", Tag("path", "root.input"), 1),
    Sample("output_connection_up", Tags2("path", "root.input", "label", "gen"), 0),
    Sample("go_goroutines", Tags2("path", "root.input", "label", "gen"), 8),
    Sample("go_goroutines", Tags2("path", "root.other", "label", "other"), 8) }

SampleLists == UNION {[1..n -> SampleChoices] : n \in 0..MaxSamples}

\* fetchMetrics resolved with the text whose samples are metricSamples: queryFn
\* groups them, attaches rates, appends the history and returns the maps.
GroupSamples ==
  /\ grouped.status = "pending"
  /\ queryFn(selectedTarget, metricSamples)
  /\ grouped' = [status |-> "success", byPath |-> groupMetricsByPath(metricSamples).byPath,
                 byLabel |-> groupMetricsByPath(metricSamples).byLabel]
  /\ UNCHANGED <<metricSamples, text, parsed, viewVars, thrown>>

\* The application as started, and the samples of the poll to come.
InitGroup ==
  /\ InitHooks
  /\ InitView
  /\ config = Undefined
  /\ graph = NoGraph
  /\ metricSamples \in SampleLists
  /\ grouped = NoResult
  /\ text = << >>
  /\ parsed = NoParse

NextGroup ==
  \/ \E name \in Targets : SelectTarget(name) /\ selectedTarget = NoTarget
  \/ StartMetricsPoll /\ pollsDone = 0
  \/ GroupSamples

SpecGroup == InitGroup /\ [][NextGroup]_vars

\* --------------------------------------------------------------- the texts
\* The lines:
\*   m 1                          a data line
\*   up{path="a",label="b"} 12    with two labels
\*   # HELP m                     a comment
\*                                only blanks
\*    m<tab>-1.5e1                blanks around, a tab between, a signed decimal with an exponent
\*   m NaN                        
\*   m Inf                        
\*   m +Inf                       
\*   m -Inf                       
\*   m 1.2.3                      two points
\*   m{x} 7                       braces without a pair
\*   1m 2                         a name that starts with a digit
\*   m{a="}"} 3                   a closing brace in a label value
LineChoices ==
  { << "m", " ", "1" >>,
    << "u", "p", "{", "p", "a", "t", "h", "=", Quote, "a", Quote, ",", "l", "a", "b", "e", "l", "=", Quote, "b", Quote, "}", " ", "1", "2" >>,
    << "#", " ", "H", "E", "L", "P", " ", "m" >>,
    << " ", " " >>,
    << " ", "m", "\t", "-", "1", ".", "5", "e", "1", " " >>,
    << "m", " ", "N", "a", "N" >>,
    << "m", " ", "I", "n", "f" >>,
    << "m", " ", "+", "I", "n", "f" >>,
    << "m", " ", "-", "I", "n", "f" >>,
    << "m", " ", "1", ".", "2", ".", "3" >>,
    << "m", "{", "x", "}", " ", "7" >>,
    << "1", "m", " ", "2" >>,
    << "m", "{", "a", "=", Quote, "}", Quote, "}", " ", "3" >> }

LineLists == UNION {[1..n -> LineChoices] : n \in 0..MaxLines}

\* lines.join('\n')
RECURSIVE Join(_)
Join(lines) ==
  IF lines = << >> THEN << >>
  ELSE IF Len(lines) = 1 THEN lines[1]
  ELSE lines[1] \o << Newline >> \o Join(Tail(lines))

Texts == {Join(lines) : lines \in LineLists}

\* fetchMetrics resolved with the text: queryFn parses it.
ParseText ==
  /\ parsed.status = "pending"
  /\ parsed' = [status |-> "success", samples |-> parsePrometheusText(text)]
  /\ UNCHANGED <<text, metricSamples, grouped, appVars, metricsVars, runtimeVars, graphVars,
                 viewVars, thrown>>

InitParse ==
  /\ InitHooks
  /\ InitView
  /\ config = Undefined
  /\ graph = NoGraph
  /\ metricSamples = << >>
  /\ grouped = NoResult
  /\ text \in Texts
  /\ parsed = NoParse

NextParse == ParseText

SpecParse == InitParse /\ [][NextParse]_vars

\* ------------------------------------------------------------- the renders
\* App renders PipelineGraphView with the graph of the config query and with
\* the data and the history of the metrics hook; data is undefined until the
\* first poll of the selected target has resolved.
RenderGraph ==
  /\ selectedTarget # NoTarget
  /\ graph.status = "success"
  /\ LET metrics == IF data[selectedTarget].status = "success"
                    THEN Some(data[selectedTarget]) ELSE None
         layouted == layoutGraph(graph)
         nodeMetricsMap == NodeMetricsMap(layouted.nodes, metrics)
         maxInputReceived == MaxInputReceived(layouted.nodes, nodeMetricsMap)
     IN view' = [status |-> "rendered",
                 withMetrics |-> metrics # None,
                 nodeMetricsMap |-> nodeMetricsMap,
                 nodesWithMetrics |-> NodesWithMetrics(layouted.nodes, nodeMetricsMap,
                                                       metrics, history),
                 maxInputReceived |-> maxInputReceived,
                 edgeTrafficValues |-> IF metrics # None
                                       THEN EdgeTrafficValues(layouted.edges, nodeMetricsMap)
                                       ELSE << >>,
                 styledEdges |-> IF metrics # None
                                 THEN buildStyledEdges(layouted.edges, nodeMetricsMap,
                                                       maxInputReceived, graph)
                                 ELSE layouted.edges]
  /\ UNCHANGED <<appVars, metricsVars, runtimeVars, graphVars, parserVars, panel, thrown>>

\* What one poll reports of the input (path root.input, label gen), of the
\* first processor (path root.pipeline.processors.0, label d) and of the
\* output (path root.output): nothing, counters of 0, 500, 1000 and 1500, a
\* bundle without counters, samples that carry only the label, and samples of
\* the path that set no field next to samples of the label that do.
InputSamples ==
  { << >>,
    << Sample("input_received", Tags2("path", "root.input", "label", "gen"), 1000) >>,
    << Sample("input_received", Tag("path", "root.input"), 0) >>,
    << Sample("input_connection_up", Tag("path", "root.input"), 1) >>,
    << Sample("input_received", Tag("label", "gen"), 1000) >>,
    << Sample("go_goroutines", Tag("path", "root.input"), 8),
       Sample("input_received", Tag("label", "gen"), 1000) >> }

ProcessorSamples ==
  { << >>,
    << Sample("processor_received", Tag("path", "root.pipeline.processors.0"), 500),
       Sample("processor_sent", Tag("path", "root.pipeline.processors.0"), 500) >>,
    << Sample("processor_received", Tag("path", "root.pipeline.processors.0"), 0),
       Sample("processor_sent", Tag("path", "root.pipeline.processors.0"), 0) >>,
    << Sample("processor_received", Tag("path", "root.pipeline.processors.0"), 1500),
       Sample("processor_sent", Tag("path", "root.pipeline.processors.0"), 1500) >>,
    << Sample("processor_received", Tag("path", "root.pipeline.processors.0"), 500),
       Sample("processor_sent", Tag("path", "root.pipeline.processors.0"), 0) >>,
    << Sample("processor_sent", Tag("path", "root.pipeline.processors.0"), 500) >>,
    << Sample("processor_error", Tag("path", "root.pipeline.processors.0"), 1) >>,
    << Sample("processor_latency_ns",
              Tags2("path", "root.pipeline.processors.0", "quantile", "0.5"), 7),
       Sample("processor_received", Tag("label", "d"), 500) >> }

OutputSamples ==
  { << >>,
    << Sample("output_sent", Tag("path", "root.output"), 1500) >>,
    << Sample("output_sent", Tag("path", "root.output"), 500) >>,
    << Sample("output_sent", Tag("path", "root.output"), 0) >>,
    << Sample("output_error", Tag("path", "root.output"), 2) >> }

RenderSamples == {i \o p \o o : i \in InputSamples, p \in ProcessorSamples, o \in OutputSamples}

RenderConfigs ==
  {Document(i, p, o, List(<< Labelled("mem", Obj(<< KV("memory", EmptyParams) >>)) >>),
            List(<< Labelled("rl", Obj(<< KV("local", EmptyParams) >>)) >>)) :
     i \in {Undefined,
            Labelled("gen", Obj(<< KV("http_client",
                                      Obj(<< KV("rate_limit", Str("rl")) >>)) >>))},
     p \in {Undefined,
            Obj(<< KV("processors",
                      List(<< Labelled("d", Obj(<< KV("dedupe",
                                                      Obj(<< KV("cache", Str("mem")) >>)) >>))
                           >>)) >>),
            Obj(<< KV("processors",
                      List(<< Obj(<< KV("mapping", Str("root = this")) >>),
                              Obj(<< KV("rate_limit",
                                        Obj(<< KV("resource", Str("rl")) >>)) >>) >>)) >>)},
     o \in {Undefined, Stdout, Broker(<< Stdout, CacheOutput >>),
            Obj(<< KV("http_client", Obj(<< KV("rate_limit", Str("rl")) >>)) >>)}}

\* The application as started, the configuration and the samples to come.
InitRender ==
  /\ InitHooks
  /\ InitView
  /\ config \in RenderConfigs
  /\ graph = NoGraph
  /\ metricSamples \in RenderSamples
  /\ grouped = NoResult
  /\ text = << >>
  /\ parsed = NoParse

NextRender ==
  \/ \E name \in Targets : SelectTarget(name) /\ selectedTarget = NoTarget
  \/ StartConfigFetch
  \/ ConfigResolve
  \/ StartMetricsPoll /\ pollsDone = 0
  \/ GroupSamples
  \/ RenderGraph

SpecRender == InitRender /\ [][NextRender]_vars

\* App renders RuntimeMetricsPanel, next to the graph, with the snapshots of
\* the runtime query of the selected target, or with none before its first
\* poll has resolved.
RenderRuntimePanel ==
  /\ selectedTarget # NoTarget
  /\ graph.status = "success"
  /\ panel' = [status |-> "rendered", snapshots |-> rtData[selectedTarget],
               cpuData |-> cpuData(rtData[selectedTarget])]
  /\ UNCHANGED <<appVars, metricsVars, runtimeVars, graphVars, parserVars, view, thrown>>

InitPanel ==
  /\ InitHooks
  /\ InitParser
  /\ InitView
  /\ config = Document(Undefined, Undefined, Stdout, Undefined, Undefined)
  /\ graph = NoGraph

\* The runtime hook polling one target, and the panel rendered in between.
NextPanel ==
  \/ selectedTarget = NoTarget /\ SelectTarget("X")
  \/ now < refetchInterval * (MaxTicks + 1) /\ Tick
  \/ StartConfigFetch
  \/ ConfigResolve
  \/ StartRuntimePoll
  \/ \E r \in Responses : rtPollsDone < MaxPanelPolls /\ RuntimePollResolve("X", r)
  \/ RenderRuntimePanel

SpecPanel == InitPanel /\ [][NextPanel]_vars

\* The three queries invoked at any time, before and after a target is
\* selected, and their fetches resolving.
NextRefetch ==
  \/ selectedTarget = NoTarget /\ \E name \in Targets : SelectTarget(name)
  \/ now < refetchInterval * (MaxTicks + 1) /\ Tick
  \/ RefetchMetrics
  \/ RefetchRuntime
  \/ graph.dataUpdateCount < MaxResolutions /\ RefetchConfig
  \/ \E t \in Targets, r \in Responses : pollsDone < MaxRefetchPolls /\ MetricsPollResolve(t, r)
  \/ \E t \in Targets, r \in Responses :
       rtPollsDone < MaxRefetchPolls /\ RuntimePollResolve(t, r)
  \/ ConfigResolve

InitRefetch ==
  /\ InitHooks
  /\ InitParser
  /\ InitView
  /\ config \in RenderConfigs
  /\ graph = NoGraph

SpecRefetch == InitRefetch /\ [][NextRefetch]_vars

\* ------------------------------------------------------------ properties
CounterFields == {"received", "sent", "error"}
MapKinds == {"byPath", "byLabel"}

\* The value of a rate field, as a fraction, equals delta / (dtMs / 1000).
IsRate(rate, delta, dtMs) == rate.den > 0 /\ rate.num * dtMs = delta * 1000 * rate.den

\* C1: when a poll completes dt > 0 after the poll that left the baseline,
\* every counter field defined in both the baseline bundle and the current
\* bundle of a key, and not lower than in the baseline, has its rate field in
\* the poll result equal to (current - previous) / dt.
C1_Step ==
  (pollsDone' = pollsDone + 1 /\ prevSnapshot # NoSnapshot /\ now > prevSnapshot.time) =>
    \A t \in inflight \ inflight' : \A m \in MapKinds :
      \A key \in DOMAIN data'[t][m] \cap DOMAIN prevSnapshot[m] : \A f \in CounterFields :
        LET cur == data'[t][m][key]
            old == prevSnapshot[m][key]
        IN (f \in DOMAIN cur /\ f \in DOMAIN old /\ cur[f] >= old[f]) =>
             /\ RateName(f) \in DOMAIN cur
             /\ IsRate(cur[RateName(f)], cur[f] - old[f], now - prevSnapshot.time)

C1_RateIsDeltaOverDt == [][C1_Step]_vars

\* received 100, then received 150 ten seconds later: receivedRate is 5
C1_Witness ==
  /\ PathIn \in DOMAIN historyRef.byPath
  /\ LET h == historyRef.byPath[PathIn]
         n == Len(h)
     IN /\ n >= 2
        /\ "received" \in DOMAIN h[n - 1] /\ h[n - 1]["received"] = 100
        /\ "received" \in DOMAIN h[n] /\ h[n]["received"] = 150
        /\ h[n]["timestamp"] - h[n - 1]["timestamp"] = 10000
        /\ prevSnapshot.time = h[n]["timestamp"]
        /\ \E t \in Targets :
             /\ data[t].status = "success"
             /\ PathIn \in DOMAIN data[t].byPath
             /\ "receivedRate" \in DOMAIN data[t].byPath[PathIn]
             /\ data[t].byPath[PathIn]["receivedRate"] = [num |-> 5, den |-> 1]
             /\ data[t].byPath[PathIn]["received"] = 150

RateFields == {"receivedRate", "sentRate", "errorRate"}
NonNegRates(m) == \A f \in RateFields \cap DOMAIN m : m[f].num >= 0 /\ m[f].den > 0

C2_NonNegative ==
  /\ \A t \in Targets : \A m \in MapKinds : \A key \in DOMAIN data[t][m] :
       NonNegRates(data[t][m][key])
  /\ \A hist \in {historyRef, history} : \A m \in MapKinds : \A key \in DOMAIN hist[m] :
       \A i \in 1..Len(hist[m][key]) : NonNegRates(hist[m][key][i])

C2_Step ==
  pollsDone' = pollsDone + 1 =>
    \A t \in inflight \ inflight' : \A m \in MapKinds :
      \A key \in DOMAIN data'[t][m] \cap DOMAIN prevSnapshot[m] : \A f \in CounterFields :
        LET cur == data'[t][m][key]
            old == prevSnapshot[m][key]
        IN (f \in DOMAIN cur /\ f \in DOMAIN old /\ cur[f] < old[f]) =>
             /\ RateName(f) \notin DOMAIN cur
             /\ RateName(f) \notin DOMAIN historyRef'[m][key][Len(historyRef'[m][key])]

\* C2: every rate field of every poll result and of every stored history
\* point is undefined or >= 0, and a poll in which a counter is below its
\* baseline value leaves that counter's rate field undefined.
C2_NoNegativeRate == []C2_NonNegative /\ [][C2_Step]_vars

\* received 100, then received 80 some time later: no receivedRate
C2_Witness ==
  \E m \in MapKinds : \E key \in DOMAIN historyRef[m] :
    LET h == historyRef[m][key]
        n == Len(h)
    IN /\ n >= 2
       /\ "received" \in DOMAIN h[n - 1] /\ "received" \in DOMAIN h[n]
       /\ h[n]["received"] < h[n - 1]["received"]
       /\ h[n]["timestamp"] > h[n - 1]["timestamp"]
       /\ prevSnapshot.time = h[n]["timestamp"]
       /\ "receivedRate" \notin DOMAIN h[n]
       /\ "receivedRate" \notin DOMAIN history[m][key][n]

Min(a, b) == IF a < b THEN a ELSE b

\* The last n entries of s, in the order of s.
LastN(s, n) == [i \in 1..Min(n, Len(s)) |-> s[Len(s) - Min(n, Len(s)) + i]]

\* C3: every per-key component history holds at most 120 points and the
\* runtime history at most 100 snapshots, and each is exactly the most
\* recently appended entries, in append order: once more entries than the
\* bound were appended, the length is the bound.
C3_HistoryBound ==
  /\ \A hist \in {historyRef, history} : \A m \in MapKinds :
       /\ DOMAIN hist[m] = DOMAIN appended[m]
       /\ \A key \in DOMAIN hist[m] :
            /\ Len(hist[m][key]) <= 120
            /\ hist[m][key] = LastN(appended[m][key], 120)
  /\ Len(rtHistoryRef) <= 100
  /\ rtHistoryRef = LastN(rtAppended, 100)
  /\ \A t \in Targets : Len(rtData[t]) <= 100

C3_Witness ==
  /\ PathIn \in DOMAIN historyRef.byPath
  /\ Len(appended.byPath[PathIn]) > 121
  /\ Len(historyRef.byPath[PathIn]) = 120
  /\ Len(history.byPath[PathIn]) = 120
  /\ PathOut \in DOMAIN historyRef.byPath
  /\ Len(historyRef.byPath[PathOut]) < 120
  /\ Len(rtAppended) > 101
  /\ Len(rtHistoryRef) = 100

PointsOf(hist) ==
  UNION {UNION {{hist[m][key][i] : i \in 1..Len(hist[m][key])} : key \in DOMAIN hist[m]}
         : m \in MapKinds}

\* C4: while a target is selected, the published and the internal component
\* history hold no point built from another target's metrics, and the rate
\* baseline was not taken from another target's metrics.
C4_TargetIsolation ==
  selectedTarget # NoTarget =>
    /\ \A p \in PointsOf(history) \cup PointsOf(historyRef) : p["src"] = selectedTarget
    /\ prevSnapshot # NoSnapshot => prevSnapshot.src = selectedTarget

\* C5: a step that changes the selected target leaves the rate baseline, the
\* internal history maps and the published history copy all empty.
C5_Step ==
  selectedTarget' # selectedTarget =>
    /\ prevSnapshot' = NoSnapshot
    /\ historyRef' = EmptyHistory
    /\ history' = EmptyHistory

C5_ResetOnSwitch == [][C5_Step]_vars

\* C6: a fetch that resolves for a target that is not the selected one
\* changes neither the component histories, nor the rate baseline, nor the
\* runtime snapshot history.
C6_Step ==
  /\ \A t \in inflight \ inflight' :
       t # selectedTarget => UNCHANGED <<prevSnapshot, historyRef, history>>
  /\ \A t \in rtInflight \ rtInflight' :
       t # selectedTarget => UNCHANGED rtHistoryRef

C6_StalePollDiscarded == [][C6_Step]_vars

\* ---- the resolved graph
Resolved == graph.status = "success"
NodeIds == {graph.nodes[i].id : i \in 1..Len(graph.nodes)}
NodesOfType(type) == LET Is(n) == n.type = type IN SelectSeq(graph.nodes, Is)
EdgesBetween(source, target) ==
  {j \in 1..Len(graph.edges) : graph.edges[j].source = source /\ graph.edges[j].target = target}
NumProcessors ==
  LET processors == Get(Get(config, "pipeline"), "processors")
  IN IF processors.t = "list" THEN Len(processors.items) ELSE 0
P(i) == "processor-" \o ToString(i)

\* The edges into a processor node or into the primary output node.
BackboneEdges ==
  LET Is(e) == e.target = "output"
               \/ \E i \in 1..Len(graph.nodes) :
                    graph.nodes[i].type = "processor" /\ graph.nodes[i].id = e.target
  IN SelectSeq(graph.edges, Is)

ExpectedBackbone ==
  LET n == NumProcessors
      hasInput == "input" \in NodeIds
      hasOutput == "output" \in NodeIds
  IN (IF hasInput /\ n > 0 THEN {<<"input", P(0)>>} ELSE {})
     \cup {<<P(i - 1), P(i)>> : i \in 1..(n - 1)}
     \cup (IF hasOutput /\ n > 0 THEN {<<P(n - 1), "output">>} ELSE {})
     \cup (IF hasInput /\ hasOutput /\ n = 0 THEN {<<"input", "output">>} ELSE {})

\* C7: a configuration with N processors resolves to exactly the processor
\* nodes processor-0 .. processor-(N-1), in that order, with metric path
\* root.pipeline.processors.<i>, and to exactly the backbone edges
\* input -> p0, p(i-1) -> p(i), p(N-1) -> output (input -> output when N = 0)
\* whose two endpoints are nodes, each once.
C7_Backbone ==
  Resolved =>
    /\ Len(NodesOfType("processor")) = NumProcessors
    /\ \A i \in 1..NumProcessors :
         /\ NodesOfType("processor")[i].id = P(i - 1)
         /\ NodesOfType("processor")[i].metricPath
              = "root.pipeline.processors." \o ToString(i - 1)
    /\ {<<BackboneEdges[j].source, BackboneEdges[j].target>> : j \in 1..Len(BackboneEdges)}
         = ExpectedBackbone
    /\ Len(BackboneEdges) = Cardinality(ExpectedBackbone)

\* two processors and an output but no input: p0 -> p1 -> output, no edge into p0
C7_Witness ==
  /\ Resolved
  /\ NumProcessors = 2
  /\ "input" \notin NodeIds
  /\ "output" \in NodeIds
  /\ Len(BackboneEdges) = 2
  /\ EdgesBetween(P(0), P(1)) # {}
  /\ EdgesBetween(P(1), "output") # {}

\* C8: node ids are pairwise distinct, and both ends of every edge are ids of
\* nodes of the graph.
C8_EndpointsExist ==
  Resolved =>
    /\ \A i, j \in 1..Len(graph.nodes) : i # j => graph.nodes[i].id # graph.nodes[j].id
    /\ \A j \in 1..Len(graph.edges) :
         graph.edges[j].source \in NodeIds /\ graph.edges[j].target \in NodeIds

\* a graph with a backbone edge, a fan-out edge and a resource edge
C8_Witness ==
  /\ Resolved
  /\ EdgesBetween("input", P(0)) # {}
  /\ EdgesBetween("output", "output-broker-1") # {}
  /\ EdgesBetween(P(0), "cache-1") # {}
  /\ EdgesBetween("output-broker-1", "rate-limit-0") # {}

\* The list a fan-out output dispatches to, and the id and path parts of its
\* children; no list when the output is none of the three kinds.
OutputKind ==
  LET output == Get(config, "output")
      type == getComponentType(output)
      params == Get(output, type)
  IN IF type = "broker" /\ Get(params, "outputs").t = "list"
     THEN [list |-> Get(params, "outputs").items, id |-> "broker",
           path |-> ".broker.outputs.", suffix |-> ""]
     ELSE IF type = "switch" /\ Get(params, "cases").t = "list"
     THEN [list |-> Get(params, "cases").items, id |-> "switch",
           path |-> ".switch.cases.", suffix |-> ".output"]
     ELSE IF type = "fan_out" /\ params.t = "list"
     THEN [list |-> params.items, id |-> "fanout", path |-> ".fan_out.", suffix |-> ""]
     ELSE [list |-> << >>, id |-> "none", path |-> "", suffix |-> ""]

\* The output-kind nodes other than the primary one, in node order.
ChildOutputs == LET Is(n) == n.type = "output" /\ n.id # "output" IN SelectSeq(graph.nodes, Is)

\* The children are exactly those of the list positions idx (from 0, in
\* increasing order), each with its derived id and metric path and exactly one
\* edge from the primary output node.
ChildrenAre(idx) ==
  /\ Len(ChildOutputs) = Len(idx)
  /\ \A k \in 1..Len(idx) :
       /\ ChildOutputs[k].id = "output-" \o OutputKind.id \o "-" \o ToString(idx[k])
       /\ ChildOutputs[k].metricPath
            = "root.output" \o OutputKind.path \o ToString(idx[k]) \o OutputKind.suffix
       /\ Cardinality(EdgesBetween("output", ChildOutputs[k].id)) = 1

AllPositions == [k \in 1..Len(OutputKind.list) |-> k - 1]

\* The positions of the list elements that are an output: every element of a
\* broker or fan_out list, and the cases of a switch that carry an output.
RECURSIVE OutputPositionsFrom(_, _)
OutputPositionsFrom(list, i) ==
  IF i > Len(list) THEN << >>
  ELSE (IF OutputKind.id # "switch" \/ Get(list[i].v, "output") # Undefined
        THEN << i - 1 >> ELSE << >>)
       \o OutputPositionsFrom(list, i + 1)

OutputPositions == OutputPositionsFrom(OutputKind.list, 1)

\* C9 as claimed: one child output node per element of the list, with its
\* derived id and metric path, and one edge from the primary output to it.
C9_OneChildPerElement == (Resolved /\ OutputKind.id # "none") => ChildrenAre(AllPositions)

\* C9 as amended: one child per element of a broker or fan_out list and per
\* case of a switch that carries an output; a case without an output has no
\* child.
C9_OneChildPerOutput == (Resolved /\ OutputKind.id # "none") => ChildrenAre(OutputPositions)

\* a switch of three cases, the second without an output: children 0 and 2
C9_Witness ==
  /\ Resolved
  /\ OutputKind.id = "switch"
  /\ Len(OutputKind.list) = 3
  /\ OutputPositions = << 0, 2 >>
  /\ Len(ChildOutputs) = 2
  /\ ChildOutputs[2].id = "output-switch-2"
  /\ ChildOutputs[2].metricPath = "root.output.switch.cases.2.output"

RECURSIVE ReferencesUnder(_, _, _)
ReferencesUnder(tree, key, parentKey) ==
  IF tree.t = "str"
  THEN {[kind |-> "cache", name |-> tree.s] : x \in {key} \cap {"cache", "cache_resource"}}
       \cup {[kind |-> "rate_limit", name |-> tree.s] :
               x \in {key} \cap {"rate_limit", "rate_limit_resource"}}
       \cup {[kind |-> "rate_limit", name |-> tree.s] :
               x \in {<<key, parentKey>>} \cap {<<"resource", "rate_limit">>}}
  ELSE UNION {ReferencesUnder(tree.items[i].v, tree.items[i].k, key) : i \in 1..Len(tree.items)}

References(node) == ReferencesUnder(node.config, NoKey, NoKey)

ReferencingNodes == {i \in 1..Len(graph.nodes) : graph.nodes[i].type \notin {"cache", "rate_limit"}}
ResourceNodesOf(kind) == {i \in 1..Len(graph.nodes) : graph.nodes[i].type = kind}

\* The resource nodes of the kind of ref whose correlation key is its name.
Matching(ref) == {r \in ResourceNodesOf(ref.kind) : graph.nodes[r].componentLabel.s = ref.name}

\* C11: for every non-resource node and every reference in its raw config
\* whose name is the correlation key of a resource node of the referenced kind,
\* the graph has an edge from the referencing node to that resource node.
C11_ReferenceEdges ==
  Resolved =>
    \A n \in ReferencingNodes : \A ref \in References(graph.nodes[n]) :
      \A r \in Matching(ref) : EdgesBetween(graph.nodes[n].id, graph.nodes[r].id) # {}

\* C12: no two edges share an id, a referencing node has at most one edge to a
\* resource node however often its config names that resource, and exactly one
\* when the name it references is the key of exactly one resource node.
C12_NoDuplicateEdges ==
  Resolved =>
    /\ \A i, j \in 1..Len(graph.edges) : i # j => graph.edges[i].id # graph.edges[j].id
    /\ \A n \in ReferencingNodes :
         /\ \A r \in ResourceNodesOf("cache") \cup ResourceNodesOf("rate_limit") :
              Cardinality(EdgesBetween(graph.nodes[n].id, graph.nodes[r].id)) <= 1
         /\ \A ref \in References(graph.nodes[n]) : \A r \in Matching(ref) :
              Cardinality(Matching(ref)) = 1 =>
                Cardinality(EdgesBetween(graph.nodes[n].id, graph.nodes[r].id)) = 1

\* the input names rate limit rl under two keys, processor d names cache mem
\* once; each has its one edge
C12_Witness ==
  /\ Resolved
  /\ \E n \in ReferencingNodes :
       /\ graph.nodes[n].id = "input"
       /\ Get(Get(graph.nodes[n].config, "http_client"), "rate_limit") = Str("rl")
       /\ Get(Get(graph.nodes[n].config, "http_client"), "rate_limit_resource") = Str("rl")
  /\ Cardinality(EdgesBetween("input", "rate-limit-0")) = 1
  /\ \E n \in ReferencingNodes :
       /\ graph.nodes[n].id = "processor-0"
       /\ graph.nodes[n].label = "d"
       /\ References(graph.nodes[n]) = {[kind |-> "cache", name |-> "mem"]}
  /\ Cardinality(ResourceNodesOf("cache")) = 1
  /\ Cardinality(EdgesBetween("processor-0", "cache-0")) = 1

\* ---- unresolvable references
\* The tree with the entries that are the reference ref deleted, or when
\* keepKey with their name replaced by an empty mapping.
RECURSIVE Without(_, _, _, _)
RECURSIVE WithoutItems(_, _, _, _, _)
Without(tree, key, ref, keepKey) ==
  IF tree.t \in {"obj", "list"}
  THEN [tree EXCEPT !.items = WithoutItems(tree.items, 1, key, ref, keepKey)]
  ELSE tree

WithoutItems(items, i, key, ref, keepKey) ==
  IF i > Len(items) THEN << >>
  ELSE (IF items[i].v.t = "str" /\ ref \in ReferencesUnder(items[i].v, items[i].k, key)
        THEN (IF keepKey THEN << KV(items[i].k, Obj(<< >>)) >> ELSE << >>)
        ELSE << KV(items[i].k, Without(items[i].v, items[i].k, ref, keepKey)) >>)
       \o WithoutItems(items, i + 1, key, ref, keepKey)

\* The document without the reference ref in its input, pipeline and output.
WithoutReference(document, ref, keepKey) ==
  Obj([i \in 1..Len(document.items) |->
         IF document.items[i].k \in {"cache_resources", "rate_limit_resources"}
         THEN document.items[i]
         ELSE KV(document.items[i].k, Without(document.items[i].v, NoKey, ref, keepKey))])

\* The references of the graph's nodes that name no resource node of their kind.
Unresolvable ==
  {ref \in UNION {References(graph.nodes[n]) : n \in ReferencingNodes} : Matching(ref) = {}}

\* A graph without the raw config its nodes carry.
WithoutRawConfig(g) ==
  [nodes |-> [i \in 1..Len(g.nodes) |->
                [f \in DOMAIN g.nodes[i] \ {"config"} |-> g.nodes[i][f]]],
   edges |-> g.edges]

\* C13 as claimed: with a reference that names no resource node of its kind,
\* the graph equals the graph of the configuration without that reference.
C13_DroppedEqualsRemoved ==
  Resolved =>
    \A ref \in Unresolvable :
      [nodes |-> graph.nodes, edges |-> graph.edges]
        = configToGraph(WithoutReference(config, ref, FALSE))

\* Equality in every field but the raw config does not hold either when the
\* entry is deleted: the reference may be the key that names the component.
DroppedEqualsDeletedButRawConfig ==
  Resolved =>
    \A ref \in Unresolvable :
      WithoutRawConfig(graph)
        = WithoutRawConfig(configToGraph(WithoutReference(config, ref, FALSE)))

\* C13 as amended: the graph has the edges, and the nodes in every field but
\* the raw config, of the configuration in which the reference's name is
\* replaced by an empty mapping under the same key.
C13_DroppedEqualsBlanked ==
  Resolved =>
    \A ref \in Unresolvable :
      WithoutRawConfig(graph)
        = WithoutRawConfig(configToGraph(WithoutReference(config, ref, TRUE)))

\* processor d names cache mem, there is no cache but there is a rate limit
\* that the input's reference resolves to; the processor has no edge to a
\* resource
C13_Witness ==
  /\ Resolved
  /\ [kind |-> "cache", name |-> "mem"] \in Unresolvable
  /\ ResourceNodesOf("cache") = {}
  /\ EdgesBetween("input", "rate-limit-0") # {}
  /\ \E n \in ReferencingNodes :
       /\ graph.nodes[n].label = "d"
       /\ [kind |-> "cache", name |-> "mem"] \in References(graph.nodes[n])
       /\ \A j \in 1..Len(graph.edges) :
            graph.edges[j].source = graph.nodes[n].id =>
              graph.edges[j].target \in {"processor-1", "output"}

\* ---- the aggregate of one poll
Grouped == grouped.status = "success"
Aggregate == [byPath |-> grouped.byPath, byLabel |-> grouped.byLabel]

\* The value of a tag; a tag with an empty value is a tag the sample does not
\* carry.
TagOf(sample, tag) == IF tag \in DOMAIN sample.labels THEN sample.labels[tag] ELSE ""
Carries(sample, tag) == TagOf(sample, tag) # ""
KeysOf(tag) ==
  {TagOf(metricSamples[i], tag) : i \in {j \in 1..Len(metricSamples) : Carries(metricSamples[j], tag)}}

\* The samples that carry tag, without the tag other.
Only(tag, other) ==
  LET Has(sample) == Carries(sample, tag)
      kept == SelectSeq(metricSamples, Has)
  IN [i \in 1..Len(kept) |->
        [kept[i] EXCEPT !.labels = [k \in DOMAIN kept[i].labels \ {other} |-> kept[i].labels[k]]]]

\* The samples with the values of their path and label tags exchanged.
Exchanged ==
  LET Other(k) == IF k = "path" THEN "label" ELSE IF k = "label" THEN "path" ELSE k
  IN [i \in 1..Len(metricSamples) |->
        [metricSamples[i] EXCEPT
           !.labels = [k \in {Other(x) : x \in DOMAIN metricSamples[i].labels} |->
                         metricSamples[i].labels[Other(k)]]]]

\* C14: the keys of byPath are the paths and the keys of byLabel the labels
\* the samples carry; each map is what the samples carrying its tag give
\* without the other tag (a sample with one tag or none adds nothing to the
\* other map); and the two maps get the same accumulation: with path and
\* label exchanged in every sample, byPath and byLabel are exchanged.
C14_BothMapsIndependently ==
  Grouped =>
    /\ DOMAIN grouped.byPath = KeysOf("path")
    /\ DOMAIN grouped.byLabel = KeysOf("label")
    /\ groupMetricsByPath(Only("path", "label"))
         = [byPath |-> grouped.byPath, byLabel |-> EmptyMap]
    /\ groupMetricsByPath(Only("label", "path"))
         = [byPath |-> EmptyMap, byLabel |-> grouped.byLabel]
    /\ groupMetricsByPath(Exchanged) = [byPath |-> grouped.byLabel, byLabel |-> grouped.byPath]

\* a sample with both tags, one with the path only and one with neither
C14_Witness ==
  /\ Grouped
  /\ metricSamples = << Sample("input_received", Tags2("path", "root.input", "label", "gen"), 5),
                        Sample("processor_received", Tag("path", "root.input"), 0),
                        Sample("input_received", NoTags, 5) >>
  /\ grouped.byPath = [k \in {"root.input"} |-> [f \in {"received"} |-> 5]]
  /\ grouped.byLabel = [k \in {"gen"} |-> [f \in {"received"} |-> 5]]

\* The metric names of the name-to-field table.
TableNames ==
  {"input_received", "processor_received", "processor_sent", "output_sent", "cache_sent",
   "processor_error", "output_error", "cache_error", "input_latency_ns",
   "processor_latency_ns", "output_latency_ns", "cache_latency_ns", "input_connection_up",
   "output_connection_up", "input_connection_failed", "output_connection_failed",
   "input_connection_lost", "output_connection_lost", "processor_batch_sent",
   "output_batch_sent", "processor_batch_received", "cache_not_found"}

\* The samples without the one at position p.
Except(p) ==
  [i \in 1..(Len(metricSamples) - 1) |-> IF i < p THEN metricSamples[i] ELSE metricSamples[i + 1]]

\* C15: a sample whose name is not in the table changes nothing: the maps are
\* those of the samples without it, in their keys and in their fields.
C15_UnknownNameIgnored ==
  Grouped =>
    \A p \in 1..Len(metricSamples) :
      metricSamples[p].name \notin TableNames => groupMetricsByPath(Except(p)) = Aggregate

\* The additive fields and the metric names mapped onto each.
AdditiveFields ==
  {"received", "sent", "error", "connectionFailed", "connectionLost", "batchSent",
   "batchReceived", "notFound"}

NamesOnto(f) ==
  CASE f = "received" -> {"input_received", "processor_received"}
    [] f = "sent" -> {"processor_sent", "output_sent", "cache_sent"}
    [] f = "error" -> {"processor_error", "output_error", "cache_error"}
    [] f = "connectionFailed" -> {"input_connection_failed", "output_connection_failed"}
    [] f = "connectionLost" -> {"input_connection_lost", "output_connection_lost"}
    [] f = "batchSent" -> {"processor_batch_sent", "output_batch_sent"}
    [] f = "batchReceived" -> {"processor_batch_received"}
    [] f = "notFound" -> {"cache_not_found"}

TagOfMap(kind) == IF kind = "byPath" THEN "path" ELSE "label"

\* The positions of the samples of key k of a map that are mapped onto field f.
Onto(kind, k, f) ==
  {i \in 1..Len(metricSamples) :
     TagOf(metricSamples[i], TagOfMap(kind)) = k /\ metricSamples[i].name \in NamesOnto(f)}

RECURSIVE SumOfValues(_)
SumOfValues(positions) ==
  IF positions = {} THEN 0
  ELSE LET i == CHOOSE x \in positions : TRUE
       IN metricSamples[i].value + SumOfValues(positions \ {i})

Orderings(n) == {pi \in [1..n -> 1..n] : \A i, j \in 1..n : pi[i] = pi[j] => i = j}

\* The additive fields of every bundle of an aggregate.
AdditivePart(agg) ==
  [kind \in MapKinds |->
     [k \in DOMAIN agg[kind] |->
        [f \in DOMAIN agg[kind][k] \cap AdditiveFields |-> agg[kind][k][f]]]]

\* C16: an additive field of a bundle is the sum of the values of the samples
\* of its key that are mapped onto it, and the additive fields are the same
\* for every permutation of the samples.
C16_AdditiveFieldsAreSums ==
  Grouped =>
    /\ \A kind \in MapKinds : \A k \in DOMAIN grouped[kind] :
         \A f \in DOMAIN grouped[kind][k] \cap AdditiveFields :
           grouped[kind][k][f] = SumOfValues(Onto(kind, k, f))
    /\ \A pi \in Orderings(Len(metricSamples)) :
         AdditivePart(groupMetricsByPath([i \in 1..Len(metricSamples) |-> metricSamples[pi[i]]]))
           = AdditivePart(Aggregate)

\* three samples onto received of path root.input, two of them of label gen
C16_Witness ==
  /\ Grouped
  /\ Len(metricSamples) = 3
  /\ Onto("byPath", "root.input", "received") = {1, 2, 3}
  /\ Cardinality(Onto("byLabel", "gen", "received")) = 2
  /\ \E i \in 1..3 : metricSamples[i].name = "processor_received"
  /\ grouped.byPath["root.input"].received = 10
  /\ grouped.byLabel["gen"].received = 10

\* The positions of the samples of key k of a map that set the gauge field f:
\* the *_connection_up samples, and the *_latency_ns samples whose quantile
\* is 0.99 or absent.
Setting(kind, k, f) ==
  {i \in 1..Len(metricSamples) :
     /\ TagOf(metricSamples[i], TagOfMap(kind)) = k
     /\ IF f = "connectionUp"
        THEN metricSamples[i].name \in {"input_connection_up", "output_connection_up"}
        ELSE /\ metricSamples[i].name \in {"input_latency_ns", "processor_latency_ns",
                                           "output_latency_ns", "cache_latency_ns"}
             /\ TagOf(metricSamples[i], "quantile") \in {"0.99", ""}}

Last(positions) == CHOOSE i \in positions : \A j \in positions : j <= i

\* C17: connectionUp and latencyNs of a key are the value of the last sample
\* of the key that sets them, and undefined when no sample sets them: a
\* latency of another quantile changes nothing.
C17_GaugesLastWins ==
  Grouped =>
    \A kind \in MapKinds : \A k \in DOMAIN grouped[kind] :
      \A f \in {"connectionUp", "latencyNs"} :
        IF Setting(kind, k, f) = {}
        THEN f \notin DOMAIN grouped[kind][k]
        ELSE /\ f \in DOMAIN grouped[kind][k]
             /\ grouped[kind][k][f] = metricSamples[Last(Setting(kind, k, f))].value

\* path root.input: a 0.99 latency, then a 0.5 latency that label gen has
\* too, then connection_up 1 and 0
C17_Witness ==
  /\ Grouped
  /\ metricSamples
       = << Sample("input_latency_ns", Tags2("path", "root.input", "quantile", "0.99"), 9),
            Sample("input_latency_ns",
                   Tags3("path", "root.input", "label", "gen", "quantile", "0.5"), 7),
            Sample("output_connection_up", Tags2("path", "root.input", "label", "gen"), 0) >>
  /\ grouped.byPath["root.input"] = [f \in {"latencyNs", "connectionUp"} |->
                                       IF f = "latencyNs" THEN 9 ELSE 0]
  /\ grouped.byLabel["gen"] = [f \in {"connectionUp"} |-> 0]

\* The point appended for key k of a map by the poll.
PointOf(kind, k) == history[kind][k][Len(history[kind][k])]

\* C18: a field of a bundle is defined exactly when a sample of the poll with
\* the bundle's key added to it or set it, so no field is defaulted to zero;
\* the point appended for the poll has the fields received, sent, error and
\* latencyNs exactly when the bundle has them, with the bundle's values.
C18_UnsetIsNotZero ==
  Grouped =>
    \A kind \in MapKinds : \A k \in DOMAIN grouped[kind] :
      /\ DOMAIN grouped[kind][k] \subseteq AdditiveFields \cup {"connectionUp", "latencyNs"}
      /\ \A f \in AdditiveFields : f \in DOMAIN grouped[kind][k] <=> Onto(kind, k, f) # {}
      /\ \A f \in {"connectionUp", "latencyNs"} :
           f \in DOMAIN grouped[kind][k] <=> Setting(kind, k, f) # {}
      /\ k \in DOMAIN history[kind]
      /\ history[kind][k] # << >>
      /\ \A f \in {"received", "sent", "error", "latencyNs"} :
           /\ f \in DOMAIN PointOf(kind, k) <=> f \in DOMAIN grouped[kind][k]
           /\ f \in DOMAIN PointOf(kind, k) => PointOf(kind, k)[f] = grouped[kind][k][f]

\* path root.input has received 0 from a sample of value 0 and no other
\* counter; its point has received 0 and neither sent nor error
C18_Witness ==
  /\ Grouped
  /\ metricSamples = << Sample("processor_received", Tag("path", "root.input"), 0),
                        Sample("output_sent", Tag("label", "gen"), 3) >>
  /\ grouped.byPath["root.input"] = [f \in {"received"} |-> 0]
  /\ DOMAIN PointOf("byPath", "root.input") \cap {"received", "sent", "error", "latencyNs"}
       = {"received"}
  /\ PointOf("byPath", "root.input").received = 0
  /\ DOMAIN PointOf("byLabel", "gen") \cap {"received", "sent", "error", "latencyNs"} = {"sent"}

\* ---- the data-line grammar
Parsed == parsed.status = "success"
Lines == Split(text)

\* token is a finite decimal: [sign] digits [. digits] [e [sign] digits], with
\* a digit before or after the point.
IsFiniteDecimal(token) ==
  LET int == IF token # << >> /\ token[1] \in {"+", "-"} THEN 2 ELSE 1
      intLen == Run(token, int, Digit)
      hasDot == int + intLen <= Len(token) /\ token[int + intLen] = "."
      fracLen == IF hasDot THEN Run(token, int + intLen + 1, Digit) ELSE 0
      e == int + intLen + (IF hasDot THEN 1 + fracLen ELSE 0)
      hasE == e <= Len(token)
      exp == IF e + 1 <= Len(token) /\ token[e + 1] \in {"+", "-"} THEN e + 2 ELSE e + 1
  IN /\ intLen + fracLen >= 1
     /\ hasE => /\ token[e] \in {"e", "E"}
                /\ Run(token, exp, Digit) >= 1
                /\ exp + Run(token, exp, Digit) = Len(token) + 1

LiteralNaN == <<"N", "a", "N">>
LiteralInf == <<"I", "n", "f">>
LiteralPlusInf == <<"+", "I", "n", "f">>
LiteralMinusInf == <<"-", "I", "n", "f">>
IsNumberToken(token) ==
  IsFiniteDecimal(token) \/ token \in {LiteralNaN, LiteralInf, LiteralPlusInf, LiteralMinusInf}

\* The number a number token denotes.
NumberOf(token) ==
  CASE token = LiteralNaN -> NaN
    [] token \in {LiteralInf, LiteralPlusInf} -> Infinity
    [] token = LiteralMinusInf -> MinusInfinity
    [] OTHER -> parseFloat(token)

\* The position after the closing brace of the label list label="value",...
\* whose first pair (or closing brace) is at position i of line; 0 if there
\* is no such list.
RECURSIVE LabelListEnd(_, _, _)
LabelListEnd(line, i, first) ==
  IF first /\ i <= Len(line) /\ line[i] = "}" THEN i + 1
  ELSE LET nameLen == IF i <= Len(line) /\ line[i] \in LabelStart THEN Run(line, i, LabelChar)
                      ELSE 0
           open == i + nameLen + 1
           valueLen == Run(line, open + 1, {c \in {line[x] : x \in 1..Len(line)} : c # Quote})
           close == open + 1 + valueLen
       IN IF /\ nameLen >= 1
             /\ close + 1 <= Len(line)
             /\ line[open - 1] = "=" /\ line[open] = Quote /\ line[close] = Quote
          THEN IF line[close + 1] = "}" THEN close + 2
               ELSE IF line[close + 1] = "," THEN LabelListEnd(line, close + 2, FALSE)
               ELSE 0
          ELSE 0

\* line is name{label="value",...} number or name number
DataLine(line) ==
  LET nameLen == IF line # << >> /\ line[1] \in NameStart THEN Run(line, 1, NameChar) ELSE 0
      braced == nameLen + 1 <= Len(line) /\ line[nameLen + 1] = "{"
      afterLabels == IF braced THEN LabelListEnd(line, nameLen + 2, TRUE) ELSE nameLen + 1
      spaces == IF afterLabels > 0 THEN Run(line, afterLabels, Whitespace) ELSE 0
      token == IF afterLabels > 0 THEN Slice(line, afterLabels + spaces, Len(line)) ELSE << >>
  IN [ok |-> nameLen >= 1 /\ afterLabels > 0 /\ spaces >= 1 /\ IsNumberToken(token),
      name |-> StringOf(Slice(line, 1, nameLen)),
      token |-> token]

\* The positions of the lines that are data lines, in source order.
DataLines ==
  LET IsData(i) == DataLine(Trim(Lines[i])).ok
  IN SelectSeq([i \in 1..Len(Lines) |-> i], IsData)

\* C19: the samples are those of the lines that match the data-line grammar,
\* one per line, in source order; blank lines, lines starting with # and the
\* other lines that do not match give no sample.
C19_SamplesOfMatchingLines ==
  Parsed =>
    /\ Len(parsed.samples) = Len(DataLines)
    /\ \A k \in 1..Len(DataLines) :
         parsed.samples[k].name = DataLine(Trim(Lines[DataLines[k]])).name

\* C20: when every line is a data line, every line has its sample, and the
\* value of the sample is the number of the line's token: NaN for NaN,
\* +Infinity for Inf and +Inf, -Infinity for -Inf.
C20_NumberTokens ==
  (Parsed /\ Len(DataLines) = Len(Lines)) =>
    /\ Len(parsed.samples) = Len(Lines)
    /\ \A i \in 1..Len(Lines) :
         parsed.samples[i].value = NumberOf(DataLine(Trim(Lines[i])).token)


\* C21: in a render with metrics, the traffic of every edge that touches no
\* cache and no rate_limit node is the received of its target when that is
\* defined, else the sent of its source when that is defined, else the sent of
\* its target when that is defined, a 0 included; when none of the three is
\* defined the traffic is undefined and the edge has the neutral style of the
\* layout.
ResourceNodeIds ==
  {graph.nodes[i].id : i \in {j \in 1..Len(graph.nodes) :
                                graph.nodes[j].type \in {"cache", "rate_limit"}}}
PlainEdges ==
  {i \in 1..Len(graph.edges) :
     graph.edges[i].source \notin ResourceNodeIds /\ graph.edges[i].target \notin ResourceNodeIds}
Has(id, f) == id \in DOMAIN view.nodeMetricsMap /\ f \in DOMAIN view.nodeMetricsMap[id]
Val(id, f) == view.nodeMetricsMap[id][f]
NeutralStyle == [stroke |-> "#6b7280", strokeWidth |-> Frac(2)]

C21_TrafficPrecedence ==
  view.withMetrics =>
    \A i \in PlainEdges :
      LET e == graph.edges[i]
          traffic == view.edgeTrafficValues[i]
      IN IF Has(e.target, "received") THEN traffic = Some(Val(e.target, "received"))
         ELSE IF Has(e.source, "sent") THEN traffic = Some(Val(e.source, "sent"))
         ELSE IF Has(e.target, "sent") THEN traffic = Some(Val(e.target, "sent"))
         ELSE /\ traffic = None
              /\ view.styledEdges[i].style = NeutralStyle
              /\ view.styledEdges[i].animated

\* an edge whose source has sent 0 and whose target has sent something has the
\* traffic 0, and the target of another edge has received 0
C21_Witness ==
  /\ view.withMetrics
  /\ \E i \in PlainEdges :
       /\ ~Has(graph.edges[i].target, "received")
       /\ Has(graph.edges[i].source, "sent") /\ Val(graph.edges[i].source, "sent") = 0
       /\ Has(graph.edges[i].target, "sent") /\ Val(graph.edges[i].target, "sent") > 0
       /\ view.edgeTrafficValues[i] = Some(0)
  /\ \E i \in PlainEdges :
       /\ Has(graph.edges[i].target, "received")
       /\ Val(graph.edges[i].target, "received") = 0

\* C22: in a render with metrics, every edge that touches no resource node and
\* has a traffic is in exactly one of three states: dead (minimum width,
\* dashed, label 0) exactly when the traffic is 0; overflow (width
\* MAX_EDGE_WIDTH + 2, greater than MAX_EDGE_WIDTH) exactly when
\* maxInputReceived > 0 and the traffic is above it; normal otherwise.  With
\* maxInputReceived = 1000, 0 is dead, 500 normal and 1500 overflow.
Keys(e) == DOMAIN e
IsDead(e) ==
  /\ e.style.strokeWidth = MIN_EDGE_WIDTH
  /\ "strokeDasharray" \in Keys(e.style)
  /\ "label" \in Keys(e) /\ e.label = "0"
  /\ ~e.animated
IsOverflow(e) ==
  /\ e.style.strokeWidth = Frac(MAX_EDGE_WIDTH + 2)
  /\ e.style.stroke = "#38bdf8"
  /\ "strokeDasharray" \notin Keys(e.style)
  /\ "label" \notin Keys(e)
IsNormal(e) ==
  /\ e.style.stroke = "#6b7280"
  /\ "strokeDasharray" \notin Keys(e.style)
  /\ "label" \notin Keys(e)
  /\ e.animated
TrafficEdges == {i \in PlainEdges : view.edgeTrafficValues[i] # None}
Traffic(i) == view.edgeTrafficValues[i][1]

C22_ThreeStates ==
  view.withMetrics =>
    \A i \in TrafficEdges :
      LET e == view.styledEdges[i]
          above == view.maxInputReceived > 0 /\ Traffic(i) > view.maxInputReceived
      IN /\ IsDead(e) <=> Traffic(i) = 0
         /\ IsOverflow(e) <=> above
         /\ IsNormal(e) <=> (Traffic(i) # 0 /\ ~above)
         /\ Cardinality({k \in {"dead", "overflow", "normal"} :
                           \/ k = "dead" /\ IsDead(e)
                           \/ k = "overflow" /\ IsOverflow(e)
                           \/ k = "normal" /\ IsNormal(e)}) = 1
         /\ IsOverflow(e) => Less(Frac(MAX_EDGE_WIDTH), e.style.strokeWidth)
         /\ view.maxInputReceived = 1000 =>
              /\ Traffic(i) = 0 => IsDead(e)
              /\ Traffic(i) = 500 => IsNormal(e)
              /\ Traffic(i) = 1500 => IsOverflow(e)

\* one render with maxInputReceived = 1000 and edges of traffic 0, 500 and 1500
C22_Witness ==
  /\ view.withMetrics
  /\ view.maxInputReceived = 1000
  /\ \A t \in {0, 500, 1500} : \E i \in TrafficEdges : Traffic(i) = t

\* C23: in a render with metrics, every edge that touches no resource node, is
\* not an overflow and has a traffic > 0 has the width
\* 1.5 + (traffic / maxTraffic) * (8 - 1.5), where maxTraffic, the greatest of
\* maxInputReceived, the traffic of every edge and 1, is at least the traffic
\* and at least 1; the width is above 1.5 and at most 8.  With
\* maxInputReceived = 1000 and no traffic above 1000, the traffic 500 has the
\* width 4.75.
AllTraffic == {view.edgeTrafficValues[i][1] :
                 i \in {j \in 1..Len(view.edgeTrafficValues) : view.edgeTrafficValues[j] # None}}
MaxTraffic ==
  LET values == AllTraffic \cup {view.maxInputReceived, 1}
  IN CHOOSE m \in values : \A v \in values : v <= m
ScaledEdges ==
  {i \in TrafficEdges :
     /\ Traffic(i) > 0
     /\ ~(view.maxInputReceived > 0 /\ Traffic(i) > view.maxInputReceived)}

C23_LinearWidth ==
  view.withMetrics =>
    \A i \in ScaledEdges :
      LET width == view.styledEdges[i].style.strokeWidth
      IN /\ MaxTraffic >= Traffic(i) /\ MaxTraffic >= 1
         /\ width = Plus(Rat(3, 2), Times(Rat(Traffic(i), MaxTraffic),
                                          Minus(Frac(8), Rat(3, 2))))
         /\ Less(Rat(3, 2), width)
         /\ ~Less(Frac(8), width)
         /\ (view.maxInputReceived = 1000 /\ MaxTraffic = 1000 /\ Traffic(i) = 500)
              => width = Rat(475, 100)

\* one render with the width 4.75 for the traffic 500 under maxTraffic 1000
C23_Witness ==
  /\ view.withMetrics
  /\ view.maxInputReceived = 1000 /\ MaxTraffic = 1000
  /\ \E i \in ScaledEdges :
       Traffic(i) = 500 /\ view.styledEdges[i].style.strokeWidth = Rat(19, 4)

\* C24: every edge that touches a cache or a rate_limit node has, after the
\* layout of the resolved graph and in every render, with or without metrics
\* and whatever its traffic, the muted dashed style and is not animated.
EdgesOfResources ==
  {i \in 1..Len(graph.edges) :
     graph.edges[i].source \in ResourceNodeIds \/ graph.edges[i].target \in ResourceNodeIds}
MutedDashed(e) ==
  /\ e.style = [stroke |-> "#585b70", strokeWidth |-> Rat(3, 2), strokeDasharray |-> "6 3"]
  /\ ~e.animated
  /\ Keys(e) = {"id", "source", "target", "animated", "style"}

C24_ResourceEdgesDashed ==
  /\ graph.status = "success" =>
       \A i \in EdgesOfResources : MutedDashed(layoutGraph(graph).edges[i])
  /\ view.status = "rendered" =>
       \A i \in EdgesOfResources :
         /\ MutedDashed(view.styledEdges[i])
         /\ view.styledEdges[i].id = graph.edges[i].id
         /\ view.styledEdges[i].source = graph.edges[i].source
         /\ view.styledEdges[i].target = graph.edges[i].target

\* a render with metrics in which an edge to a resource has a traffic of 0 and
\* another a traffic above maxInputReceived
C24_Witness ==
  /\ view.withMetrics
  /\ \E i \in EdgesOfResources :
       view.edgeTrafficValues[i] = Some(0) /\ MutedDashed(view.styledEdges[i])
  /\ \E i \in EdgesOfResources :
       /\ view.edgeTrafficValues[i] = Some(1500) /\ view.maxInputReceived = 1000
       /\ MutedDashed(view.styledEdges[i])

\* C25: in a render with metrics, a node resolves to the bundle (and to the
\* history) of its metricPath when the samples of that path have set a field,
\* and otherwise, when the samples of its componentLabel have made a bundle, to
\* the bundle (and to the history) of the label: a node whose path's samples
\* set no field and whose label's samples carry counters has the label's bundle.
Metrics == data[selectedTarget]
PathSetsField(node) ==
  node.metricPath \in DOMAIN Metrics.byPath /\ DOMAIN Metrics.byPath[node.metricPath] # {}
LabelHasBundle(node) ==
  Truthy(node.componentLabel) /\ node.componentLabel.s \in DOMAIN Metrics.byLabel

C25_PathThenLabel ==
  view.withMetrics =>
    \A i \in 1..Len(graph.nodes) :
      LET node == graph.nodes[i]
          resolved == view.nodesWithMetrics[i]
      IN IF PathSetsField(node)
         THEN /\ resolved.metrics = Some(Metrics.byPath[node.metricPath])
              /\ resolved.metricsHistory = Some(history.byPath[node.metricPath])
         ELSE IF LabelHasBundle(node)
         THEN /\ resolved.metrics = Some(Metrics.byLabel[node.componentLabel.s])
              /\ resolved.metricsHistory = Some(history.byLabel[node.componentLabel.s])
         ELSE /\ resolved.metrics = MapGet(Metrics.byPath, node.metricPath)
              /\ resolved.metricsHistory = MapGet(history.byPath, node.metricPath)

\* C26: an assignment to a bundle of a returned result leaves the stored
\* baseline as it is; the baseline holds, for every key, the counters as they
\* were polled, and the rates of the next poll are computed from them.
AsPolled(m, key) == appended[m][key][Len(appended[m][key])]

C26_BaselineAsPolled ==
  prevSnapshot # NoSnapshot =>
    \A m \in MapKinds : \A key \in DOMAIN prevSnapshot[m] :
      /\ key \in DOMAIN appended[m]
      /\ AsPolled(m, key)["timestamp"] = prevSnapshot.time
      /\ \A f \in CounterFields :
           /\ f \in DOMAIN prevSnapshot[m][key] <=> f \in DOMAIN AsPolled(m, key)
           /\ f \in DOMAIN prevSnapshot[m][key] =>
                prevSnapshot[m][key][f] = AsPolled(m, key)[f]

C26_MutationStep ==
  (data' # data /\ pollsDone' = pollsDone) => prevSnapshot' = prevSnapshot

C26_PollStep ==
  (pollsDone' = pollsDone + 1 /\ prevSnapshot # NoSnapshot /\ now > prevSnapshot.time) =>
    \A t \in inflight \ inflight' : \A m \in MapKinds :
      \A key \in DOMAIN data'[t][m] \cap DOMAIN prevSnapshot[m] : \A f \in CounterFields :
        LET cur == data'[t][m][key]
            old == AsPolled(m, key)
        IN (f \in DOMAIN cur /\ f \in DOMAIN old /\ cur[f] >= old[f]) =>
             /\ RateName(f) \in DOMAIN cur
             /\ IsRate(cur[RateName(f)], cur[f] - old[f], now - prevSnapshot.time)

C27_CpuSeries ==
  panel.status = "rendered" =>
    LET n == Len(panel.snapshots)
        series == panel.cpuData
    IN /\ Len(series) = IF n < 2 THEN 0 ELSE n - 1
       /\ \A i \in 1..Len(series) :
            LET dtMs == panel.snapshots[i + 1].timestamp - panel.snapshots[i].timestamp
                delta == panel.snapshots[i + 1].cpuSecondsTotal
                           - panel.snapshots[i].cpuSecondsTotal
            IN IF dtMs > 0
               THEN /\ series[i].den > 0
                    /\ series[i].num * dtMs = 100 * delta * 1000 * series[i].den
               ELSE series[i] = Frac(0)

\* three snapshots: cpu 2 and 3 five seconds apart (20 percent), then cpu 2 at
\* the time of the second (no division, 0)
C27_Witness ==
  /\ panel.status = "rendered"
  /\ Len(panel.snapshots) = 3
  /\ panel.snapshots[1].cpuSecondsTotal = 2 /\ panel.snapshots[2].cpuSecondsTotal = 3
  /\ panel.snapshots[2].timestamp - panel.snapshots[1].timestamp = 5000
  /\ panel.snapshots[3].timestamp = panel.snapshots[2].timestamp
  /\ panel.snapshots[3].cpuSecondsTotal = 2
  /\ panel.cpuData = << Frac(20), Frac(0) >>

\* C28: while no target is selected, an invocation of the metrics, the runtime
\* or the config queryFn throws "No target selected", no fetch is in flight,
\* and the baseline, the histories and the results are as they were.
C28_NothingInFlight ==
  selectedTarget = NoTarget =>
    /\ inflight = {} /\ rtInflight = {} /\ cfgInflight = {}
    /\ \A q \in Queries : thrown[q] \in {"none", "No target selected"}

C28_Step ==
  (selectedTarget = NoTarget /\ thrown' # thrown) =>
    /\ \A q \in Queries : thrown'[q] # thrown[q] => thrown'[q] = "No target selected"
    /\ UNCHANGED <<inflight, rtInflight, cfgInflight, prevSnapshot, historyRef, history,
                   rtHistoryRef, data, rtData, graph>>

C28_NoTargetError == []C28_NothingInFlight /\ [][C28_Step]_vars

\* all three queryFns were invoked with no target selected
C28_Witness ==
  /\ selectedTarget = NoTarget
  /\ \A q \in Queries : thrown[q] = "No target selected"

\* C29: the resolution of a configuration without some of, or without all of,
\* the sections input, pipeline.processors, output, cache_resources and
\* rate_limit_resources ends without an error; the graph has no node of an
\* absent section, the nodes of every present section as that section alone
\* resolves to them, the edges of every present section, and no edge to or
\* from a node that is not there.
Sections == {"input", "pipeline", "output", "cache_resources", "rate_limit_resources"}
KindOf(section) ==
  CASE section = "input" -> "input"
    [] section = "pipeline" -> "processor"
    [] section = "output" -> "output"
    [] section = "cache_resources" -> "cache"
    [] section = "rate_limit_resources" -> "rate_limit"
Absent(section) ==
  IF section = "pipeline" THEN Get(Get(config, "pipeline"), "processors") = Undefined
  ELSE Get(config, section) = Undefined
Alone(section) == configToGraph(Obj(<< KV(section, Get(config, section)) >>))
NodesOfKind(g, kind) == LET Is(n) == n.type = kind IN SelectSeq(g.nodes, Is)

C29_AbsentSectionsEmpty ==
  graph.status # "pending" =>
    /\ graph.status = "success"
    /\ \A section \in Sections :
         IF Absent(section) THEN NodesOfType(KindOf(section)) = << >>
         ELSE /\ NodesOfType(KindOf(section)) = NodesOfKind(Alone(section), KindOf(section))
              /\ \A j \in 1..Len(Alone(section).edges) :
                   \E k \in 1..Len(graph.edges) : graph.edges[k] = Alone(section).edges[j]
    /\ \A j \in 1..Len(graph.edges) :
         graph.edges[j].source \in NodeIds /\ graph.edges[j].target \in NodeIds

\* C30: a resolution of the configuration that was resolved before, whatever
\* has been selected, polled and rendered in between, gives the same set of
\* nodes (id, kind, label, componentType, metric path) and the same set of
\* edges (id, source, target).
NodeSet(g) ==
  {[id |-> g.nodes[i].id, type |-> g.nodes[i].type, label |-> g.nodes[i].label,
    componentType |-> g.nodes[i].componentType, metricPath |-> g.nodes[i].metricPath] :
     i \in 1..Len(g.nodes)}
EdgeSet(g) ==
  {[id |-> g.edges[i].id, source |-> g.edges[i].source, target |-> g.edges[i].target] :
     i \in 1..Len(g.edges)}

C30_Step ==
  (graph'.dataUpdateCount = graph.dataUpdateCount + 1 /\ graph.status = "success") =>
    /\ graph'.status = "success"
    /\ NodeSet(graph') = NodeSet(graph)
    /\ EdgeSet(graph') = EdgeSet(graph)

HasRate(bundle) == RateFields \cap DOMAIN bundle # {}

C31_Step ==
  pollsDone' = pollsDone + 1 =>
    \A t \in inflight \ inflight' : \A m \in MapKinds :
      /\ \A key \in DOMAIN data'[t][m] :
           /\ HasRate(data'[t][m][key]) =>
                /\ prevSnapshot # NoSnapshot
                /\ now > prevSnapshot.time
                /\ key \in DOMAIN prevSnapshot[m]
           /\ HasRate(historyRef'[m][key][Len(historyRef'[m][key])])
                <=> HasRate(data'[t][m][key])
      /\ prevSnapshot'.time = now
      /\ DOMAIN prevSnapshot'[m] = DOMAIN data'[t][m]

C31_RatesNeedBaseline == [][C31_Step]_vars

\* three polls five seconds apart, the second without the output: the third
\* has a rate for the input and none for the output, whose sent went from 90
\* to 120
C31_Witness ==
  /\ PathIn \in DOMAIN historyRef.byPath /\ PathOut \in DOMAIN historyRef.byPath
  /\ Len(historyRef.byPath[PathIn]) = 3
  /\ Len(historyRef.byPath[PathOut]) = 2
  /\ PathOut \in DOMAIN prevSnapshot.byPath
  /\ LET i == historyRef.byPath[PathIn]
         o == historyRef.byPath[PathOut]
     IN /\ o[1]["timestamp"] = i[1]["timestamp"]
        /\ o[2]["timestamp"] = i[3]["timestamp"]
        /\ i[1]["timestamp"] < i[2]["timestamp"] /\ i[2]["timestamp"] < i[3]["timestamp"]
        /\ "sent" \in DOMAIN o[1] /\ "sent" \in DOMAIN o[2] /\ o[2]["sent"] > o[1]["sent"]
        /\ ~HasRate(o[2]) /\ ~HasRate(i[1])
        /\ HasRate(i[3])

\* C32: a poll cycle whose fetch fails changes neither the rate baseline nor
\* the internal or the published history, and the successful poll after it
\* takes its rates against the last successful poll: for a key of that poll,
\* the increase since then over the whole time since then.
MaxTime(points) == CHOOSE x \in {p["timestamp"] : p \in points} : \A p \in points : p["timestamp"] <= x

\* The points of a key's history that the polls of the latest instant with a
\* successful poll appended.
PointsAtLast(m, key) ==
  {i \in 1..Len(historyRef[m][key]) :
     historyRef[m][key][i]["timestamp"] = MaxTime(PointsOf(historyRef))}

\* The key was in the aggregate of the last successful poll: every poll of
\* that instant appended a point for it, as for the key with the most.
InLastPoll(m, key) ==
  /\ PointsAtLast(m, key) # {}
  /\ \A m2 \in MapKinds : \A key2 \in DOMAIN historyRef[m2] :
       Cardinality(PointsAtLast(m2, key2)) <= Cardinality(PointsAtLast(m, key))

C32_FailedStep ==
  (inflight' # inflight /\ inflight' \subseteq inflight /\ pollsDone' = pollsDone) =>
    /\ UNCHANGED <<prevSnapshot, historyRef, history>>
    /\ \A t \in Targets : data'[t].byPath = data[t].byPath /\ data'[t].byLabel = data[t].byLabel

C32_SuccessStep ==
  pollsDone' = pollsDone + 1 =>
    \A t \in inflight \ inflight' : \A m \in MapKinds :
      \A key \in DOMAIN data'[t][m] \cap DOMAIN historyRef[m] :
        LET cur == data'[t][m][key]
            last == historyRef[m][key][Len(historyRef[m][key])]
        IN (InLastPoll(m, key) /\ now > last["timestamp"]) =>
             \A f \in CounterFields :
               (f \in DOMAIN cur /\ f \in DOMAIN last /\ cur[f] >= last[f]) =>
                 /\ RateName(f) \in DOMAIN cur
                 /\ IsRate(cur[RateName(f)], cur[f] - last[f], now - last["timestamp"])

C32_FailedFetchKeepsBaseline == [][C32_FailedStep /\ C32_SuccessStep]_vars

\* received 100, a failed fetch five seconds later, received 150 after five
\* more: receivedRate is 50 / 10
C32_Witness ==
  \E t \in Targets :
    /\ data[t].status = "success"
    /\ PathIn \in DOMAIN data[t].byPath
    /\ PathIn \in DOMAIN historyRef.byPath
    /\ LET h == historyRef.byPath[PathIn]
           n == Len(h)
       IN /\ n >= 2
          /\ h[n - 1]["timestamp"] < failedAt
          /\ failedAt < h[n]["timestamp"]
          /\ h[n]["timestamp"] - h[n - 1]["timestamp"] = 10000
          /\ h[n - 1]["src"] = t /\ h[n]["src"] = t
          /\ "received" \in DOMAIN h[n - 1] /\ h[n - 1]["received"] = 100
          /\ "received" \in DOMAIN h[n] /\ h[n]["received"] = 150
          /\ "receivedRate" \in DOMAIN data[t].byPath[PathIn]
          /\ data[t].byPath[PathIn]["receivedRate"] = [num |-> 5, den |-> 1]

\* C33: a successful poll appends, to the history of every key of its
\* aggregate, exactly one point: its timestamp is the poll's, its received,
\* sent, error, latencyNs and rate fields are those of the poll's bundle, and
\* the points before it are the points the history had, unmodified and in
\* order, less at most the oldest.  The history of a key that the aggregate
\* lacks is unchanged.  The published copy is the internal history.
IsPointOf(p, bundle, timestamp) ==
  /\ p["timestamp"] = timestamp
  /\ DOMAIN p \cap PointFields = DOMAIN bundle \cap PointFields
  /\ \A f \in DOMAIN p \cap PointFields : p[f] = bundle[f]

C33_Step ==
  pollsDone' = pollsDone + 1 =>
    \A t \in inflight \ inflight' : \A m \in MapKinds :
      /\ DOMAIN historyRef'[m] = DOMAIN historyRef[m] \cup DOMAIN data'[t][m]
      /\ \A key \in DOMAIN data'[t][m] :
           LET old == IF key \in DOMAIN historyRef[m] THEN historyRef[m][key] ELSE << >>
               new == historyRef'[m][key]
           IN /\ Len(new) >= 1 /\ Len(new) >= Len(old)
              /\ IsPointOf(new[Len(new)], data'[t][m][key], now)
              /\ \E k \in {0, 1} :
                   /\ k <= Len(old)
                   /\ new = SubSeq(old, k + 1, Len(old)) \o << new[Len(new)] >>
      /\ \A key \in DOMAIN historyRef[m] \ DOMAIN data'[t][m] :
           historyRef'[m][key] = historyRef[m][key]
      /\ history'[m] = historyRef'[m]

C33_OnePointPerKey == [][C33_Step]_vars

\* the last poll had the input and not the output: the input's history, full
\* at 120 points, ends with a point of the poll's time that carries a rate,
\* the output's ends earlier
C33_Witness ==
  /\ PathIn \in DOMAIN historyRef.byPath /\ PathOut \in DOMAIN historyRef.byPath
  /\ PathOut \notin DOMAIN prevSnapshot.byPath
  /\ LET i == historyRef.byPath[PathIn]
         o == historyRef.byPath[PathOut]
     IN /\ Len(i) = 120 /\ Len(appended.byPath[PathIn]) > 120
        /\ i[120]["timestamp"] = prevSnapshot.time
        /\ "receivedRate" \in DOMAIN i[120]
        /\ Len(o) >= 2
        /\ o[Len(o)]["timestamp"] < prevSnapshot.time
        /\ history.byPath[PathOut] = o

\* C34: maxTraffic is the maximum of maxInputReceived, 1 and the traffic of
\* the edges that touch no cache or rate_limit node, so the width of such an
\* edge is fixed by its own traffic and by those values: the traffic computed
\* for an edge of a resource changes no other edge.
PlainTraffic == {Traffic(i) : i \in PlainEdges \cap TrafficEdges}
MaxPlainTraffic ==
  LET values == PlainTraffic \cup {view.maxInputReceived, 1}
  IN CHOOSE m \in values : \A v \in values : v <= m

C34_ResourceTrafficUnused ==
  view.withMetrics =>
    \A i \in PlainEdges \cap ScaledEdges :
      view.styledEdges[i].style.strokeWidth =
        Plus(MIN_EDGE_WIDTH, Times(Rat(Traffic(i), MaxPlainTraffic),
                                   Minus(Frac(MAX_EDGE_WIDTH), MIN_EDGE_WIDTH)))

\* C35: a step that empties the rate baseline, the internal history or the
\* published history empties all three, and the successful poll that follows
\* attaches no rate field to any key and leaves every key of its aggregate,
\* and no other key, with a history of exactly one point.
Emptied(before, after, empty) == before # empty /\ after = empty

C35_ResetStep ==
  (\/ Emptied(prevSnapshot, prevSnapshot', NoSnapshot)
   \/ Emptied(historyRef, historyRef', EmptyHistory)
   \/ Emptied(history, history', EmptyHistory)) =>
    /\ prevSnapshot' = NoSnapshot
    /\ historyRef' = EmptyHistory
    /\ history' = EmptyHistory

C35_PollStep ==
  (pollsDone' = pollsDone + 1 /\ prevSnapshot = NoSnapshot) =>
    \A t \in inflight \ inflight' : \A m \in MapKinds :
      /\ DOMAIN historyRef'[m] = DOMAIN data'[t][m]
      /\ DOMAIN history'[m] = DOMAIN data'[t][m]
      /\ \A key \in DOMAIN data'[t][m] :
           /\ ~HasRate(data'[t][m][key])
           /\ Len(historyRef'[m][key]) = 1
           /\ Len(history'[m][key]) = 1
           /\ ~HasRate(historyRef'[m][key][1])

C35_ResetTogether ==
  /\ [](prevSnapshot = NoSnapshot => (historyRef = EmptyHistory /\ history = EmptyHistory))
  /\ [][C35_ResetStep /\ C35_PollStep]_vars

\* the third poll, ten seconds after the first, came after a reset: one point
\* per key, no rate
C35_Witness ==
  /\ pollsDone = 3
  /\ prevSnapshot # NoSnapshot /\ prevSnapshot.time = 3 * refetchInterval
  /\ PathIn \in DOMAIN historyRef.byPath
  /\ \A m \in MapKinds : \A key \in DOMAIN historyRef[m] :
       /\ Len(historyRef[m][key]) = 1
       /\ Len(history[m][key]) = 1
       /\ historyRef[m][key][1]["timestamp"] = prevSnapshot.time
       /\ ~HasRate(historyRef[m][key][1])
  /\ \E t \in Targets :
       /\ data[t].status = "success"
       /\ DOMAIN data[t].byPath = DOMAIN historyRef.byPath
       /\ \A key \in DOMAIN data[t].byPath : ~HasRate(data[t].byPath[key])

\* C36: the render of a target other than the one last seen leaves the runtime
\* snapshot history empty, and in a run in which no runtime poll is in flight
\* when the target is switched, the history held by the hook and every
\* history a poll returned hold only snapshots built from the metrics of the
\* target that was selected at the poll.
C36_SwitchStep == selectedTarget' # selectedTarget => rtHistoryRef' = << >>

\* A runtime poll was in flight when the target was switched: a fetch of a
\* target other than the selected one is, or was, under way.  A fetch starts
\* for the selected target only.
SwitchDuringPoll == \E t \in rtInflight : t # selectedTarget

SnapshotsOfTarget ==
  /\ \A i \in 1..Len(rtHistoryRef) : rtHistoryRef[i].src = selectedTarget
  /\ \A t \in Targets : \A i \in 1..Len(rtData[t]) : rtData[t][i].src = t

C36_RuntimeHistoryOfTarget ==
  /\ [][C36_SwitchStep]_vars
  /\ (<>SwitchDuringPoll \/ []SnapshotsOfTarget)

\* polls of X, then the switch to Y with no poll in flight, then a poll of Y:
\* the history holds the one snapshot of Y
C36_Witness ==
  /\ selectedTarget = "Y"
  /\ rtInflight = {}
  /\ Len(rtData["X"]) >= 1
  /\ Len(rtHistoryRef) = 1 /\ rtHistoryRef[1].src = "Y"
  /\ rtData["Y"] = rtHistoryRef
  /\ rtPollsDone >= 2

\* C37: the part of a poll cycle after its fetch runs in one step, whatever
\* other cycles are in flight: the step that completes a cycle takes the
\* baseline and the histories as the cycle completed before it left them and
\* leaves what the post-fetch part gives from them (rates against that
\* baseline, the baseline replaced, one point appended, the copy published),
\* and no other step of a cycle writes them.  With the clock not going back,
\* the timestamps of every key's history do not decrease.
WithoutRates(map) ==
  [key \in DOMAIN map |-> [f \in DOMAIN map[key] \ RateFields |-> map[key][f]]]

PostFetch(m, aggregate) ==
  IF prevSnapshot # NoSnapshot /\ prevSnapshot.time > 0
  THEN attachRates(aggregate, prevSnapshot[m], Rat(now - prevSnapshot.time, 1000))
  ELSE aggregate

C37_CompletionStep ==
  pollsDone' = pollsDone + 1 =>
    \A t \in inflight \ inflight' :
      /\ inflight' = inflight \ {t}
      /\ prevSnapshot'.time = now
      /\ \A m \in MapKinds :
           LET result == PostFetch(m, WithoutRates(data'[t][m]))
           IN /\ data'[t][m] = result
              /\ prevSnapshot'[m] = result
              /\ historyRef'[m] = appendHistory(historyRef[m], result, now, t)
              /\ history'[m] = historyRef'[m]

C37_OtherStep ==
  (pollsDone' = pollsDone /\ inflight' # inflight) =>
    UNCHANGED <<prevSnapshot, historyRef, history, data>>

TimestampsInOrder(hist) ==
  \A m \in MapKinds : \A key \in DOMAIN hist[m] :
    \A i \in 1..Len(hist[m][key]) : \A j \in i..Len(hist[m][key]) :
      hist[m][key][i]["timestamp"] <= hist[m][key][j]["timestamp"]

EdgePairs == {<< graph.edges[j].source, graph.edges[j].target >> : j \in 1..Len(graph.edges)}

\* The nodes reached from the nodes of the set in at most n steps.
RECURSIVE ReachedFrom(_, _)
ReachedFrom(from, n) ==
  IF n = 0 THEN from
  ELSE LET next == from \cup {e[2] : e \in {x \in EdgePairs : x[1] \in from}}
       IN IF next = from THEN from ELSE ReachedFrom(next, n - 1)

Successors(id) == {e[2] : e \in {x \in EdgePairs : x[1] = id}}

Acyclic == \A id \in NodeIds : id \notin ReachedFrom(Successors(id), Len(graph.nodes))

C38_EdgeDirections ==
  Resolved =>
    /\ \A j \in 1..Len(graph.edges) :
         /\ graph.edges[j].source \notin ResourceNodeIds
         /\ graph.edges[j].target # "input"
         /\ ~(\E i \in 1..Len(graph.nodes) :
                graph.nodes[i].id = graph.edges[j].target /\ graph.nodes[i].type = "input")
    /\ Acyclic
    /\ \A j \in EdgesOfResources : graph.edges[j].target \in ResourceNodeIds

\* a graph with the backbone from the input, a fan-out edge and edges to a
\* cache and to a rate limit
C38_Witness ==
  /\ Resolved
  /\ EdgesBetween("input", P(0)) # {}
  /\ EdgesBetween(P(0), "output") # {}
  /\ EdgesBetween("output", "output-broker-0") # {}
  /\ \E j \in EdgesOfResources : graph.edges[j].target = "cache-0"
  /\ \E j \in EdgesOfResources : graph.edges[j].target = "rate-limit-0"

\* C39: a reference that matches a resource node and that the configuration
\* holds in one fan-out child of the output and nowhere outside the output
\* gives exactly two edges to the resource nodes of its name: one from the
\* child and one from the primary output, whose raw config contains the
\* child's, both to the same node.
ChildDef(k) ==
  IF OutputKind.id = "switch" THEN Get(OutputKind.list[k].v, "output") ELSE OutputKind.list[k].v
ChildId(k) == "output-" \o OutputKind.id \o "-" \o ToString(k - 1)
ChildReferences(k) == ReferencesUnder(ChildDef(k), NoKey, NoKey)

OnlyIn(k, ref) ==
  /\ ref \in ChildReferences(k)
  /\ \A k2 \in (1..Len(OutputKind.list)) \ {k} : ref \notin ChildReferences(k2)
  /\ \A n \in ReferencingNodes :
       graph.nodes[n].type # "output" => ref \notin References(graph.nodes[n])

EdgesTo(ids) == {j \in 1..Len(graph.edges) : graph.edges[j].target \in ids}

C39_ChildReferenceTwice ==
  Resolved =>
    \A k \in 1..Len(OutputKind.list) : \A ref \in ChildReferences(k) :
      (OnlyIn(k, ref) /\ Matching(ref) # {}) =>
        \E r \in Matching(ref) :
          /\ Cardinality(EdgesBetween(ChildId(k), graph.nodes[r].id)) = 1
          /\ Cardinality(EdgesBetween("output", graph.nodes[r].id)) = 1
          /\ EdgesTo({graph.nodes[x].id : x \in Matching(ref)})
               = EdgesBetween(ChildId(k), graph.nodes[r].id)
                   \cup EdgesBetween("output", graph.nodes[r].id)

\* the broker whose second child alone names the rate limit rl: the edges
\* output-broker-1 -> rate-limit-0 and output -> rate-limit-0, and no other
\* edge to it
C39_Witness ==
  /\ Resolved
  /\ OutputKind.id = "broker" /\ Len(OutputKind.list) = 2
  /\ OnlyIn(2, [kind |-> "rate_limit", name |-> "rl"])
  /\ EdgesBetween("output-broker-1", "rate-limit-0") # {}
  /\ EdgesBetween("output", "rate-limit-0") # {}
  /\ Cardinality(EdgesTo({"rate-limit-0"})) = 2
  /\ Len(NodesOfType("processor")) > 0

====
